---- MODULE Spec2Model ----
(***************************************************************************)
(* Verification model of the book-catalog repository: six single-file      *)
(* programs (five Flask/SQLite variants of one CRUD application and one    *)
(* in-process microservice simulation).                                    *)
(*                                                                         *)
(* Text is modelled as a sequence of one-character strings, so that        *)
(* strip(), slicing, regular-expression matching, int() and strftime() are *)
(* computed character by character.  A date is the triple <<y, m, d>>; a   *)
(* missing value (Python None / SQL NULL) is the empty tuple <<>>.         *)
(***************************************************************************)
EXTENDS Integers, Sequences, FiniteSets, TLC

VARIABLES
    variant,    \* which of the programs is running
    genres,     \* table genres:  id -> row
    authors,    \* table authors: id -> row
    books,      \* table books:   id -> row
    resp,       \* the last request served together with its response
    hist,       \* history: what the requests so far deleted and created
    nreq,       \* the number of requests served
    libc,       \* the C library behind strftime: "glibc" or "padded"
    dateIn,     \* the string handed to the date parsers
    dateOut,    \* what each date parser returned for dateIn
    session,    \* variant 2: each browser session's cookie and the forms it was sent
    clock,      \* the simulation: the value of now_ts()
    seen_nonces,\* the simulation: each service's replay store, in insertion order
    inflight,   \* the simulation: the Message object being passed
    signedAs,   \* history: the key inflight was last signed with, and inflight as it then was
    accepted,   \* history: the nonces each service has accepted, in order
    verdict,    \* the simulation: the last verify_incoming call and what it returned
    run,        \* the simulation: the call in progress, the three databases, Car_MS's cars
    pending     \* original variant: the requests that are between their check and their commit

dbVars == <<genres, authors, books>>
webVars == <<variant, genres, authors, books, resp, hist, nreq, libc, session, pending>>
dateVars == <<dateIn, dateOut>>
simVars == <<clock, seen_nonces, inflight, signedAs, accepted, verdict, run>>
vars == <<variant, genres, authors, books, resp, hist, nreq, libc, dateIn, dateOut,
          session, clock, seen_nonces, inflight, signedAs, accepted, verdict, run,
          pending>>

(***************************************************************************)
(* Python values                                                           *)
(***************************************************************************)
None == <<>>

Min(a, b) == IF a <= b THEN a ELSE b

Max(a, b) == IF a >= b THEN a ELSE b

DigitChars == <<"0", "1", "2", "3", "4", "5", "6", "7", "8", "9">>

\* str.isdigit() / the regular expression class \d, on the ASCII inputs used
IsDigit(c) == \E i \in 1..10 : DigitChars[i] = c

DigitVal(c) == (CHOOSE i \in 1..10 : DigitChars[i] = c) - 1

\* characters str.strip() removes
IsSpace(c) == c \in {" ", "\n", "\t"}

AllDigits(s) == \A i \in 1..Len(s) : IsDigit(s[i])

\* s[a:b] of Python, 0-based and end-exclusive, clipped to the string
Slice(s, a, b) == SubSeq(s, a + 1, Min(b, Len(s)))

\* s[:n]
Take(s, n) == SubSeq(s, 1, Min(n, Len(s)))

RECURSIVE LStrip(_)
LStrip(s) == IF s # <<>> /\ IsSpace(Head(s)) THEN LStrip(Tail(s)) ELSE s

RECURSIVE RStrip(_)
RStrip(s) ==
    IF s # <<>> /\ IsSpace(s[Len(s)]) THEN RStrip(SubSeq(s, 1, Len(s) - 1)) ELSE s

\* str.strip()
Strip(s) == RStrip(LStrip(s))

\* int() of a string of decimal digits
RECURSIVE DigitsToInt(_)
DigitsToInt(s) ==
    IF s = <<>> THEN 0
    ELSE 10 * DigitsToInt(SubSeq(s, 1, Len(s) - 1)) + DigitVal(s[Len(s)])

\* str(n) for n >= 0
RECURSIVE IntToDigits(_)
IntToDigits(n) ==
    IF n < 10 THEN <<DigitChars[n + 1]>>
    ELSE IntToDigits(n \div 10) \o <<DigitChars[(n % 10) + 1]>>

\* n rendered in at least w digits, zero-filled on the left ("%02d")
RECURSIVE ZeroPad(_, _)
ZeroPad(s, w) == IF Len(s) >= w THEN s ELSE ZeroPad(<<"0">> \o s, w)

\* n copies of character c
Rep(c, n) == [i \in 1..n |-> c]

(***************************************************************************)
(* datetime.date                                                           *)
(***************************************************************************)
IsLeap(y) == (y % 4 = 0) /\ ((y % 100 # 0) \/ (y % 400 = 0))

DaysInMonth(y, m) ==
    IF m = 2 THEN (IF IsLeap(y) THEN 29 ELSE 28)
    ELSE IF m \in {4, 6, 9, 11} THEN 30 ELSE 31

\* date(y, m, d): the date, or None where Python raises ValueError
PyDate(y, m, d) ==
    IF /\ y >= 1 /\ y <= 9999          \* datetime.MINYEAR .. datetime.MAXYEAR
       /\ m >= 1 /\ m <= 12
       /\ d >= 1 /\ d <= DaysInMonth(y, m)
    THEN <<y, m, d>>
    ELSE None

\* date comparison d1 <= d2 (SQLite compares the stored 'YYYY-MM-DD' texts)
DateLE(d1, d2) ==
    \/ d1[1] < d2[1]
    \/ d1[1] = d2[1] /\ d1[2] < d2[2]
    \/ d1[1] = d2[1] /\ d1[2] = d2[2] /\ d1[3] <= d2[3]

(***************************************************************************)
(* re and datetime.strptime, as far as the date parsers use them           *)
(***************************************************************************)
NonZeroDigits == {"1", "2", "3", "4", "5", "6", "7", "8", "9"}

\* s[a..b] (1-based, inclusive), clipped to the string
Sub(s, a, b) == SubSeq(s, a, Min(b, Len(s)))

\* re.compile(r"^\d{8}$").match(s): eight digits from the start, then the end
\* of the string; Python's $ also matches just before one trailing newline
Matches8Digits(s) ==
    /\ Len(s) >= 8
    /\ AllDigits(SubSeq(s, 1, 8))
    /\ \/ Len(s) = 8
       \/ Len(s) = 9 /\ s[9] = "\n"

\* The alternatives of strptime's %m, (1[0-2]|0[1-9]|[1-9]), that match at
\* position i, as their lengths in the order the regex engine tries them
MonthLens(s, i) ==
    (IF /\ i + 1 <= Len(s)
        /\ \/ s[i] = "1" /\ s[i + 1] \in {"0", "1", "2"}
           \/ s[i] = "0" /\ s[i + 1] \in NonZeroDigits
     THEN <<2>> ELSE <<>>)
    \o (IF i <= Len(s) /\ s[i] \in NonZeroDigits THEN <<1>> ELSE <<>>)

\* The same for %d, (3[01]|[12]\d|0[1-9]|[1-9]| [1-9])
DayLens(s, i) ==
    (IF /\ i + 1 <= Len(s)
        /\ \/ s[i] = "3" /\ s[i + 1] \in {"0", "1"}
           \/ s[i] \in {"1", "2"} /\ IsDigit(s[i + 1])
           \/ s[i] = "0" /\ s[i + 1] \in NonZeroDigits
     THEN <<2>> ELSE <<>>)
    \o (IF i <= Len(s) /\ s[i] \in NonZeroDigits THEN <<1>> ELSE <<>>)
    \o (IF i + 1 <= Len(s) /\ s[i] = " " /\ s[i + 1] \in NonZeroDigits
        THEN <<2>> ELSE <<>>)

\* datetime.strptime(s, "%Y" + sep + "%m" + sep + "%d").date(), or None where
\* it raises ValueError: no match of the format's regex, unconverted data
\* after the match, or field values that are no date
Strptime(s, sep) ==
    LET k == Len(sep)
        mpos == 5 + k
        yOk == /\ Len(s) >= 4 + k
               /\ AllDigits(SubSeq(s, 1, 4))
               /\ SubSeq(s, 5, 4 + k) = sep
        MonthOk(l) == /\ Sub(s, mpos + l, mpos + l + k - 1) = sep
                      /\ DayLens(s, mpos + l + k) # <<>>
        mc == SelectSeq(MonthLens(s, mpos), MonthOk)
    IN  IF ~yOk \/ mc = <<>> THEN None
        ELSE LET ml == mc[1]
                 dpos == mpos + ml + k
                 dl == DayLens(s, dpos)[1]
             IN  IF dpos + dl - 1 # Len(s) THEN None
                 ELSE PyDate(DigitsToInt(SubSeq(s, 1, 4)),
                             DigitsToInt(SubSeq(s, mpos, mpos + ml - 1)),
                             DigitsToInt(LStrip(SubSeq(s, dpos, dpos + dl - 1))))

\* datetime.strptime(s, "%Y-%m-%d").date() of the HTML forms and API bodies
StrptimeIso(s) == Strptime(s, <<"-">>)

(***************************************************************************)
(* The API date parsers                                                    *)
(***************************************************************************)
\* variant 2, parse_yyyymmdd
V2_parse_yyyymmdd(s) ==
    IF s = <<>> THEN None
    ELSE IF ~Matches8Digits(s) THEN None
    ELSE PyDate(DigitsToInt(Slice(s, 0, 4)), DigitsToInt(Slice(s, 4, 6)),
                DigitsToInt(Slice(s, 6, 8)))

\* original variant, parse_api_date
Orig_parse_api_date(s) ==
    IF s = <<>> THEN None
    ELSE IF ~Matches8Digits(s) THEN None
    ELSE Strptime(s, <<>>)

\* original variant, parse_html_date
Orig_parse_html_date(s) == IF s = <<>> THEN None ELSE StrptimeIso(s)

(***************************************************************************)
(* Inputs of the date parsers: well-formed and ill-formed yyyymmdd texts   *)
(***************************************************************************)
YMD(y, m, d) ==
    ZeroPad(IntToDigits(y), 4) \o ZeroPad(IntToDigits(m), 2)
        \o ZeroPad(IntToDigits(d), 2)

ISO(y, m, d) ==
    ZeroPad(IntToDigits(y), 4) \o <<"-">> \o ZeroPad(IntToDigits(m), 2)
        \o <<"-">> \o ZeroPad(IntToDigits(d), 2)

SampleYears == {0, 1, 999, 1900, 2000, 2020, 2021}

SampleMonths == {0, 1, 2, 4, 12, 13}

SampleDays == {0, 1, 9, 28, 29, 30, 31, 32}

\* ways of spoiling a text: nothing, a trailing newline / blank / digit /
\* letter, a leading blank, the last character dropped, a character replaced
Spoil(s) ==
    {s, s \o <<"\n">>, s \o <<" ">>, s \o <<"0">>, s \o <<"a">>, <<" ">> \o s,
     SubSeq(s, 1, Len(s) - 1), [s EXCEPT ![5] = " "], [s EXCEPT ![7] = " "],
     [s EXCEPT ![8] = "a"], [s EXCEPT ![1] = "-"]}

DateInputs ==
    {<<>>}
    \cup UNION {Spoil(YMD(y, m, d)) :
                    y \in SampleYears, m \in SampleMonths, d \in SampleDays}
    \cup {ISO(y, m, d) : y \in {999, 2020}, m \in {1, 2, 13}, d \in {1, 30}}

Pending == [parser |-> "none"]

DateParsers == {"v2", "orig"}

RunParser(p, s) ==
    CASE p = "v2" -> V2_parse_yyyymmdd(s)
      [] p = "orig" -> Orig_parse_api_date(s)


\* one call of a date parser on the current input
ParseDate(p) ==
    /\ dateOut = Pending
    /\ dateOut' = [parser |-> p, result |-> RunParser(p, dateIn)]
    /\ UNCHANGED dateIn

NoHistory == [gone |-> [genres |-> {}, authors |-> {}, books |-> {}], posted |-> <<>>]

NoResponse == [req |-> [op |-> "none"], status |-> 0, body |-> <<>>]

\* no browser has visited the HTML pages
NoSessions == <<>>

\* the microservice simulation is not running
SimulationIdle ==
    /\ clock = 0
    /\ seen_nonces = <<>>
    /\ inflight = <<>>
    /\ signedAs = <<>>
    /\ accepted = <<>>
    /\ verdict = <<>>
    /\ run = <<>>

\* the web application is not running while the parsers are exercised alone
WebIdle ==
    /\ session = NoSessions
    /\ pending = <<>>
    /\ SimulationIdle
    /\ variant = "none"
    /\ genres = <<>> /\ authors = <<>> /\ books = <<>>
    /\ resp = NoResponse
    /\ hist = NoHistory
    /\ nreq = 0
    /\ libc = "glibc"

InitDate ==
    /\ dateIn \in DateInputs
    /\ dateOut = Pending
    /\ WebIdle

NextDate == \E p \in DateParsers : ParseDate(p) /\ UNCHANGED <<webVars, simVars>>

SpecDate == InitDate /\ [][NextDate]_vars

(***************************************************************************)
(* int() and the integers SQLite accepts                                   *)
(***************************************************************************)
RECURSIVE StripZeros(_)
StripZeros(s) == IF Len(s) > 1 /\ Head(s) = "0" THEN StripZeros(Tail(s)) ELSE s

\* int(s) for a text s: surrounding whitespace and one sign are accepted.
\* ok is FALSE where Python raises ValueError; otherwise the integer is kept
\* as its sign and its decimal digits, since it may exceed any machine width
PyInt(s) ==
    LET t == Strip(s)
        signed == t # <<>> /\ Head(t) \in {"+", "-"}
        digits == IF signed THEN Tail(t) ELSE t
    IN  IF digits = <<>> \/ ~AllDigits(digits)
        THEN [ok |-> FALSE]
        ELSE [ok |-> TRUE,
              neg |-> signed /\ Head(t) = "-" /\ StripZeros(digits) # <<"0">>,
              mag |-> StripZeros(digits)]

\* a < b for two non-negative integers given by their digits
RECURSIVE DigitsLess(_, _)
DigitsLess(a, b) ==
    IF Len(a) # Len(b) THEN Len(a) < Len(b)
    ELSE IF a = <<>> THEN FALSE
    ELSE IF Head(a) # Head(b) THEN DigitVal(Head(a)) < DigitVal(Head(b))
    ELSE DigitsLess(Tail(a), Tail(b))

\* 2^63 - 1, the largest integer the sqlite3 module binds to a statement
SqliteMaxInt ==
    <<"9", "2", "2", "3", "3", "7", "2", "0", "3", "6", "8", "5", "4", "7", "7",
      "5", "8", "0", "7">>

\* 2^63, the magnitude of the smallest such integer
SqliteMinMag ==
    <<"9", "2", "2", "3", "3", "7", "2", "0", "3", "6", "8", "5", "4", "7", "7",
      "5", "8", "0", "8">>

\* binding n raises OverflowError ("Python int too large to convert to SQLite
\* INTEGER")
BindOverflows(n) ==
    IF n.neg THEN DigitsLess(SqliteMinMag, n.mag)
    ELSE DigitsLess(SqliteMaxInt, n.mag)

\* an integer literal of the code, as int() would return it
FromNat(n) == [ok |-> TRUE, neg |-> FALSE, mag |-> IntToDigits(n)]

\* x <= y
IntLE(x, y) ==
    IF x.neg # y.neg THEN x.neg
    ELSE IF x.neg THEN ~DigitsLess(x.mag, y.mag)
    ELSE ~DigitsLess(y.mag, x.mag)

PyMin(x, y) == IF IntLE(x, y) THEN x ELSE y

PyMax(x, y) == IF IntLE(x, y) THEN y ELSE x

\* the integer as a number; beyond nine digits every value acts on the small
\* tables of this model like 10^9 does (no row is that far)
IntVal(n) ==
    LET v == IF Len(n.mag) <= 9 THEN DigitsToInt(n.mag) ELSE 1000000000
    IN  IF n.neg THEN 0 - v ELSE v

(***************************************************************************)
(* Tables: a table is a function from the ids of its rows to the rows      *)
(***************************************************************************)
NoRows == <<>>

Ids(tbl) == DOMAIN tbl

MaxOf(S) == CHOOSE x \in S : \A y \in S : y <= x

\* the id SQLite gives the next row of an INTEGER PRIMARY KEY table: one more
\* than the largest id present, so the id of a deleted last row is used again
NextId(tbl) == IF Ids(tbl) = {} THEN 1 ELSE MaxOf(Ids(tbl)) + 1

Insert(tbl, id, row) ==
    [i \in Ids(tbl) \cup {id} |-> IF i = id THEN row ELSE tbl[i]]

Delete(tbl, id) == [i \in Ids(tbl) \ {id} |-> tbl[i]]

\* the ids of a set in ascending order (ORDER BY id): those of the lower half
\* of the range of ids, then those of the upper half
Ascending(S) ==
    LET RECURSIVE Within(_, _)
        Within(lo, hi) ==
            IF lo = hi THEN (IF lo \in S THEN <<lo>> ELSE <<>>)
            ELSE Within(lo, (lo + hi) \div 2) \o Within((lo + hi) \div 2 + 1, hi)
    IN  IF S = {} THEN <<>>
        ELSE Within(CHOOSE x \in S : \A y \in S : x <= y, MaxOf(S))

\* LIMIT limit OFFSET offset on an ordered result; SQLite takes a negative
\* LIMIT as no limit and a negative OFFSET as 0
OffsetLimit(seq, offset, limit) ==
    LET first == Max(offset, 0) + 1
    IN  SubSeq(seq, first, IF limit < 0 THEN Len(seq)
                           ELSE Min(Len(seq), first + limit - 1))

\* two JSON objects or query strings merged (keys of a win)
Join(a, b) == [k \in DOMAIN a \cup DOMAIN b |-> IF k \in DOMAIN a THEN a[k] ELSE b[k]]

\* requests, as the view functions see them in flask.request
GET(args) == [method |-> "GET", args |-> args]

POST(is_json, payload) == [method |-> "POST", is_json |-> is_json, payload |-> payload]

PUT(is_json, payload) == [method |-> "PUT", is_json |-> is_json, payload |-> payload]

DELETE == [method |-> "DELETE"]

\* request.args.get(k, default) / payload.get(k, default)
Get(obj, k, default) == IF k \in DOMAIN obj THEN obj[k] ELSE default

(***************************************************************************)
(* Responses                                                               *)
(***************************************************************************)
Reply(req, status, body) == [req |-> req, status |-> status, body |-> body]

\* an unhandled exception: Flask answers 500
InternalServerError(req) == Reply(req, 500, [message |-> "Internal Server Error"])

\* an error reply that is sent with status 200
api_error_single_ok(req, msg, status) == Reply(req, 200, [message |-> msg])

\* api_error_single: {"message": msg}
api_error_single(req, msg, status) == Reply(req, status, [message |-> msg])

\* api_error_multiple: {"message": {"error": [...]}}, one entry per field
api_error_multiple(req, errors, status) ==
    Reply(req, status, [message |-> [error |-> errors]])

\* date.strftime("%Y-%m-%d"): the C library's %Y is not zero-filled to four
\* digits everywhere (glibc renders year 999 as "999")
Strftime(d) ==
    (IF libc = "glibc" THEN IntToDigits(d[1]) ELSE ZeroPad(IntToDigits(d[1]), 4))
        \o <<"-">> \o ZeroPad(IntToDigits(d[2]), 2)
        \o <<"-">> \o ZeroPad(IntToDigits(d[3]), 2)

(***************************************************************************)
(* Genres and authors are handled by the same code on two tables           *)
(***************************************************************************)
Kinds == {"genres", "authors"}

\* the view function that serves the kind
ViewName(kind, g, a) == IF kind = "genres" THEN g ELSE a

Table(kind) == IF kind = "genres" THEN genres ELSE authors

\* the table of that kind becomes tbl, the other tables stay
SetTable(kind, tbl) ==
    IF kind = "genres"
    THEN genres' = tbl /\ UNCHANGED <<authors, books>>
    ELSE authors' = tbl /\ UNCHANGED <<genres, books>>

(***************************************************************************)
(* Variant 2 (CHATGPT_book_catalog_secure_code_2.py): models and seed      *)
(***************************************************************************)
\* the columns of class Genre and class Author (variants 2, 3 and remove_3)
IdCol(kind) == IF kind = "genres" THEN "Genre_ID" ELSE "Author_ID"

NameCol(kind) == IF kind = "genres" THEN "Genre_Name" ELSE "Author_Name"

TextCol(kind) == IF kind = "genres" THEN "Genre_Description" ELSE "Author_Bio"

\* a row of genres or authors
V2_Named(kind, name, text) ==
    [k \in {NameCol(kind), TextCol(kind)} |-> IF k = NameCol(kind) THEN name ELSE text]

V2_Book(title, author, genre, publication, pub_date, description) ==
    [Book_Title |-> title, Book_Author |-> author, Book_Genre |-> genre,
     Book_Publication |-> publication, Book_Publication_Date |-> pub_date,
     Book_Description |-> description]

\* the columns of a book besides its id
BookColumns ==
    {"Book_Title", "Book_Author", "Book_Genre", "Book_Publication",
     "Book_Publication_Date", "Book_Description"}

\* Genre.to_dict / Author.to_dict
V2_Named_to_dict(kind, id, row) ==
    [k \in {IdCol(kind), NameCol(kind), TextCol(kind)} |->
        IF k = IdCol(kind) THEN id ELSE row[k]]

V2_Book_to_dict(id, b) ==
    [Book_ID |-> id,
     Book_Title |-> b.Book_Title,
     Book_Author |-> b.Book_Author,
     Book_Genre |-> b.Book_Genre,
     Book_Publication |-> b.Book_Publication,
     Book_Publication_Date |->
         IF b.Book_Publication_Date # None
         THEN Strftime(b.Book_Publication_Date) ELSE <<>>,
     Book_Description |-> b.Book_Description]

TxtFiction == <<"F", "i", "c", "t", "i", "o", "n">>

TxtNonFiction == <<"N", "o", "n", "-", "F", "i", "c", "t", "i", "o", "n">>

TxtJaneDoe == <<"J", "a", "n", "e", " ", "D", "o", "e">>

TxtJohnSmith == <<"J", "o", "h", "n", " ", "S", "m", "i", "t", "h">>

TxtSampleBook1 == <<"S", "a", "m", "p", "l", "e", " ", "B", "o", "o", "k", " ", "1">>

\* create_tables: the rows the first request finds
V2_create_tables ==
    /\ genres = <<V2_Named("genres", TxtFiction, <<"F", "i", "c", "t", "i", "o", "n", "a", "l", " ", "w", "o", "r", "k", "s">>),
                  V2_Named("genres", TxtNonFiction, <<"N", "o", "n", "-", "f", "i", "c", "t", "i", "o", "n", "a", "l", " ", "w", "o", "r", "k", "s">>)>>
    /\ authors = <<V2_Named("authors", TxtJaneDoe, <<"A", "n", " ", "e", "x", "a", "m", "p", "l", "e", " ", "a", "u", "t", "h", "o", "r", ".">>),
                   V2_Named("authors", TxtJohnSmith, <<"A", "n", "o", "t", "h", "e", "r", " ", "e", "x", "a", "m", "p", "l", "e", " ", "a", "u", "t", "h", "o", "r", ".">>)>>
    /\ books = <<V2_Book(TxtSampleBook1, TxtJaneDoe, TxtFiction,
                         <<"S", "a", "m", "p", "l", "e", " ", "P", "u", "b", "l", "i", "s", "h", "e", "r">>, <<2020, 1, 1>>,
                         <<"A", " ", "s", "a", "m", "p", "l", "e", " ", "b", "o", "o", "k", ".">>)>>

(***************************************************************************)
(* Variant 2: /api/v1/books                                                *)
(***************************************************************************)
\* the date of a JSON body: parse_yyyymmdd(s), else strptime(s, "%Y-%m-%d")
V2_body_date(s) ==
    IF V2_parse_yyyymmdd(s) # None THEN V2_parse_yyyymmdd(s) ELSE StrptimeIso(s)

\* date bounds that leave out the bound's own day
DateInRangeExclusive(d, after_dt, before_dt) ==
    /\ after_dt # None => d # None /\ DateLE(after_dt, d) /\ d # after_dt
    /\ before_dt # None => d # None /\ DateLE(d, before_dt) /\ d # before_dt

\* the after_date / before_date filters on a date column; a NULL date
\* satisfies no comparison
DateInRange(d, after_dt, before_dt) ==
    /\ after_dt # None => d # None /\ DateLE(after_dt, d)
    /\ before_dt # None => d # None /\ DateLE(d, before_dt)

\* api_books: GET lists, POST creates
V2_api_books(r) ==
    LET req == Join([op |-> "api_books"], r)
    IN  IF r.method = "GET"
        THEN LET limit == PyInt(Get(r.args, "limit", <<"1", "0">>))
                 offset == PyInt(Get(r.args, "offset", <<"0">>))
                 before_raw == Get(r.args, "before_date", None)
                 after_raw == Get(r.args, "after_date", None)
                 before_dt == IF before_raw # <<>>
                              THEN V2_parse_yyyymmdd(before_raw) ELSE None
                 after_dt == IF after_raw # <<>>
                             THEN V2_parse_yyyymmdd(after_raw) ELSE None
                 q == Ascending({id \in Ids(books) :
                          DateInRange(books[id].Book_Publication_Date, after_dt, before_dt)})
                 items == OffsetLimit(q, IntVal(offset), IntVal(limit))
             IN  /\ resp' =
                        IF ~limit.ok \/ ~offset.ok
                        THEN api_error_single(req, "limit and offset must be integers", 400)
                        ELSE IF limit.neg \/ offset.neg
                        THEN api_error_single(req, "limit and offset must be non-negative", 400)
                        ELSE IF \/ before_raw # <<>> /\ before_dt = None
                                \/ after_raw # <<>> /\ after_dt = None
                        THEN api_error_single(req, "Invalid date format. Use yyyymmdd", 400)
                        ELSE IF BindOverflows(limit) \/ BindOverflows(offset)
                        THEN InternalServerError(req)     \* OverflowError, not caught
                        ELSE Reply(req, 200, [i \in 1..Len(items) |->
                                        V2_Book_to_dict(items[i], books[items[i]])])
                 /\ UNCHANGED dbVars
        ELSE LET payload == r.payload
                 required == {"Book_Title", "Book_Author", "Book_Genre"}
                 s == Get(payload, "Book_Publication_Date", None)
                 dt == IF s # <<>> THEN V2_body_date(s) ELSE None
                 errors == {k \in required : Get(payload, k, None) = <<>>}
                               \cup (IF s # <<>> /\ dt = None
                                     THEN {"Book_Publication_Date"} ELSE {})
                 b == V2_Book(Take(Strip(Get(payload, "Book_Title", None)), 300),
                              Take(Strip(Get(payload, "Book_Author", None)), 120),
                              Take(Strip(Get(payload, "Book_Genre", None)), 120),
                              Take(Get(payload, "Book_Publication", <<>>), 200),
                              dt,
                              Take(Get(payload, "Book_Description", <<>>), 2000))
                 id == NextId(books)
             IN  IF ~r.is_json
                 THEN /\ resp' = api_error_single(req, "Request body must be JSON", 400)
                      /\ UNCHANGED dbVars
                 ELSE IF errors # {}
                 THEN /\ resp' = api_error_multiple(req, errors, 400)
                      /\ UNCHANGED dbVars
                 ELSE /\ books' = Insert(books, id, b)
                      /\ resp' = Reply(req, 201, V2_Book_to_dict(id, b))
                      /\ UNCHANGED <<genres, authors>>

(***************************************************************************)
(* Variant 2: /api/v1/books/<book_id>                                      *)
(***************************************************************************)
\* a PUT that writes every column from the body, present or not
V2_book_put_replace(b, payload) ==
    LET Text(k, n) == IF k \in DOMAIN payload /\ payload[k] # <<>>
                      THEN Take(payload[k], n) ELSE b[k]
        Free(k, n) == Take(Get(payload, k, <<>>), n)
        s == Get(payload, "Book_Publication_Date", <<>>)
    IN  V2_Book(Text("Book_Title", 300), Text("Book_Author", 120),
                Text("Book_Genre", 120), Free("Book_Publication", 200),
                IF V2_body_date(s) # None \/ s = <<>>
                THEN V2_body_date(s) ELSE b.Book_Publication_Date,
                Free("Book_Description", 2000))

\* a request end that commits what the handler left in its session
shutdown_session_committing(stored, assigned) == assigned

\* Flask-SQLAlchemy removes the session when the request ends: what the
\* handler assigned to an object and did not commit is dropped
shutdown_session(stored, assigned) == stored

\* the book after the assignments of a PUT body
V2_book_put_fields(b, payload) ==
    LET Text(k, n) == IF k \in DOMAIN payload /\ payload[k] # <<>>
                      THEN Take(payload[k], n) ELSE b[k]
        Free(k, n) == IF k \in DOMAIN payload THEN Take(payload[k], n) ELSE b[k]
        s == Get(payload, "Book_Publication_Date", <<>>)
    IN  V2_Book(Text("Book_Title", 300), Text("Book_Author", 120),
                Text("Book_Genre", 120), Free("Book_Publication", 200),
                IF "Book_Publication_Date" \in DOMAIN payload
                   /\ (V2_body_date(s) # None \/ s = <<>>)
                THEN V2_body_date(s) ELSE b.Book_Publication_Date,
                Free("Book_Description", 2000))

\* the fields a PUT body is rejected for
V2_book_put_errors(payload) ==
    {k \in {"Book_Title", "Book_Author", "Book_Genre"} :
         k \in DOMAIN payload /\ payload[k] = <<>>}
    \cup (IF /\ "Book_Publication_Date" \in DOMAIN payload
             /\ payload["Book_Publication_Date"] # <<>>
             /\ V2_body_date(payload["Book_Publication_Date"]) = None
          THEN {"Book_Publication_Date"} ELSE {})

\* api_book_item: GET, PUT and DELETE of one book. A PUT body with errors is
\* answered 400 before the commit, and the assignments made so far are
\* dropped with the request's session
V2_api_book_item(r, book_id) ==
    LET req == Join([op |-> "api_book_item", id |-> book_id], r)
    IN  IF book_id \notin Ids(books)
        THEN /\ resp' = api_error_single(req, "Book not found", 404)
             /\ UNCHANGED dbVars
        ELSE IF r.method = "GET"
        THEN /\ resp' = Reply(req, 200, V2_Book_to_dict(book_id, books[book_id]))
             /\ UNCHANGED dbVars
        ELSE IF r.method = "DELETE"
        THEN /\ books' = Delete(books, book_id)
             /\ resp' = Reply(req, 204, <<>>)
             /\ UNCHANGED <<genres, authors>>
        ELSE IF ~r.is_json
        THEN /\ resp' = api_error_single(req, "Request body must be JSON", 400)
             /\ UNCHANGED dbVars
        ELSE IF V2_book_put_errors(r.payload) # {}
        THEN /\ resp' = api_error_multiple(req, V2_book_put_errors(r.payload), 400)
             /\ books' = [books EXCEPT ![book_id] =
                              shutdown_session(@, V2_book_put_fields(@, r.payload))]
             /\ UNCHANGED <<genres, authors>>
        ELSE LET b == V2_book_put_fields(books[book_id], r.payload)
             IN  /\ books' = [books EXCEPT ![book_id] = b]
                 /\ resp' = Reply(req, 200, V2_Book_to_dict(book_id, b))
                 /\ UNCHANGED <<genres, authors>>

(***************************************************************************)
(* Flask-WTF: CSRFProtect(app) checks every POST, PUT, PATCH and DELETE    *)
(* before the view function runs, the JSON API included                    *)
(***************************************************************************)
\* the request with a valid CSRF token in its header or form
WithToken(r) == Join([csrf |-> TRUE], r)

CsrfRejects(r) ==
    /\ r.method \in {"POST", "PUT", "PATCH", "DELETE"}
    /\ ~("csrf" \in DOMAIN r /\ r.csrf)

CsrfError(req) == Reply(req, 400, [message |-> "The CSRF token is missing."])

\* a UNIQUE column: no row other than id holds the value
UniqueOk(tbl, id, col, value) ==
    \A j \in Ids(tbl) \ {id} : tbl[j][col] # value

(***************************************************************************)
(* Variant 2: /api/v1/genres, /api/v1/authors and their items              *)
(***************************************************************************)
\* String(500) of Genre_Description, String(2000) of Author_Bio, as the code
\* cuts them
V2_TextWidth(kind) == IF kind = "genres" THEN 500 ELSE 2000

\* api_genres / api_authors
V2_api_names(kind, r) ==
    LET req == Join([op |-> ViewName(kind, "api_genres", "api_authors")], r)
        tbl == Table(kind)
    IN  IF r.method = "GET"
        THEN LET limit == PyInt(Get(r.args, "limit", <<"1", "0">>))
                 offset == PyInt(Get(r.args, "offset", <<"0">>))
                 items == OffsetLimit(Ascending(Ids(tbl)), IntVal(offset), IntVal(limit))
             IN  /\ resp' =
                        IF ~limit.ok \/ ~offset.ok
                        THEN api_error_single(req, "limit and offset must be integers", 400)
                        ELSE IF BindOverflows(limit) \/ BindOverflows(offset)
                        THEN InternalServerError(req)      \* OverflowError, not caught
                        ELSE Reply(req, 200, [i \in 1..Len(items) |->
                                        V2_Named_to_dict(kind, items[i], tbl[items[i]])])
                 /\ UNCHANGED dbVars
        ELSE LET name == Strip(Get(r.payload, NameCol(kind), <<>>))
                 desc == Strip(Get(r.payload, TextCol(kind), <<>>))
                 row == V2_Named(kind, Take(name, 120), Take(desc, V2_TextWidth(kind)))
                 id == NextId(tbl)
             IN  IF ~r.is_json
                 THEN /\ resp' = api_error_single(req, "Request must be JSON", 400)
                      /\ UNCHANGED dbVars
                 ELSE IF name = <<>>
                 THEN /\ resp' = api_error_single(req, "name is required", 400)
                      /\ UNCHANGED dbVars
                 ELSE IF ~UniqueOk(tbl, id, NameCol(kind), row[NameCol(kind)])
                 THEN /\ resp' = api_error_single(req, "name already exists", 409)
                      /\ UNCHANGED dbVars        \* IntegrityError, rollback
                 ELSE /\ SetTable(kind, Insert(tbl, id, row))
                      /\ resp' = Reply(req, 201, V2_Named_to_dict(kind, id, row))

\* api_genre_item / api_author_item
V2_api_name_item(kind, r, id) ==
    LET req == Join([op |-> ViewName(kind, "api_genre_item", "api_author_item"),
                     id |-> id], r)
        tbl == Table(kind)
    IN  IF id \notin Ids(tbl)
        THEN /\ resp' = api_error_single(req, "not found", 404)
             /\ UNCHANGED dbVars
        ELSE IF r.method = "GET"
        THEN /\ resp' = Reply(req, 200, V2_Named_to_dict(kind, id, tbl[id]))
             /\ UNCHANGED dbVars
        ELSE IF r.method = "DELETE"
        THEN /\ SetTable(kind, Delete(tbl, id))
             /\ resp' = Reply(req, 204, <<>>)
        ELSE LET payload == r.payload
                 row == V2_Named(kind,
                            IF NameCol(kind) \in DOMAIN payload
                            THEN Take(payload[NameCol(kind)], 120)
                            ELSE tbl[id][NameCol(kind)],
                            IF TextCol(kind) \in DOMAIN payload
                            THEN Take(payload[TextCol(kind)], V2_TextWidth(kind))
                            ELSE tbl[id][TextCol(kind)])
             IN  IF ~r.is_json
                 THEN /\ resp' = api_error_single(req, "Request must be JSON", 400)
                      /\ UNCHANGED dbVars
                 ELSE IF NameCol(kind) \in DOMAIN payload /\ payload[NameCol(kind)] = <<>>
                 THEN /\ resp' = api_error_single(req, "name cannot be empty", 400)
                      /\ UNCHANGED dbVars
                 ELSE IF ~UniqueOk(tbl, id, NameCol(kind), row[NameCol(kind)])
                 THEN /\ resp' = api_error_single(req, "name already exists", 409)
                      /\ UNCHANGED dbVars        \* IntegrityError, rollback
                 ELSE /\ SetTable(kind, [tbl EXCEPT ![id] = row])
                      /\ resp' = Reply(req, 200, V2_Named_to_dict(kind, id, row))

(***************************************************************************)
(* Variant 3 (CHATGPT_book_catalog_secure_code_3.py)                       *)
(* Rows and to_dict are those of variant 2.                                *)
(***************************************************************************)
V3_api_error(req, message, status) == Reply(req, status, [message |-> message])

\* parse_api_date: the date, or None where it returns an error
V3_parse_api_date(s) == IF Len(s) # 8 THEN None ELSE Strptime(s, <<>>)

\* the date of a JSON body: strptime with "%Y%m%d", else with "%Y-%m-%d"
V3_body_date(raw) ==
    IF Strptime(raw, <<>>) # None THEN Strptime(raw, <<>>) ELSE StrptimeIso(raw)

\* sample_genres and sample_authors of init_db
V3_sample_genres ==
    <<V2_Named("genres", TxtFiction, <<"F", "i", "c", "t", "i", "o", "n", "a", "l", " ", "w", "o", "r", "k", "s">>),
      V2_Named("genres", <<"N", "o", "n", "-", "f", "i", "c", "t", "i", "o", "n">>, <<"N", "o", "n", "-", "f", "i", "c", "t", "i", "o", "n", "a", "l", " ", "w", "o", "r", "k", "s">>)>>

V3_sample_authors ==
    <<V2_Named("authors", <<"J", "a", "n", "e", " ", "A", "u", "s", "t", "e", "n">>, <<"E", "n", "g", "l", "i", "s", "h", " ", "n", "o", "v", "e", "l", "i", "s", "t", ".">>),
      V2_Named("authors", <<"G", "e", "o", "r", "g", "e", " ", "O", "r", "w", "e", "l", "l">>, <<"E", "n", "g", "l", "i", "s", "h", " ", "n", "o", "v", "e", "l", "i", "s", "t", " ", "&", " ", "e", "s", "s", "a", "y", "i", "s", "t", ".">>)>>

\* init_db on a fresh database file
V3_init_db ==
    /\ genres = V3_sample_genres
    /\ authors = V3_sample_authors
    /\ books = NoRows

\* api_books_collection
V3_api_books_collection(r) ==
    LET req == Join([op |-> "api_books_collection"], r)
    IN  IF CsrfRejects(r) THEN resp' = CsrfError(req) /\ UNCHANGED dbVars
        ELSE IF r.method = "GET"
        THEN LET before_date_str == Get(r.args, "before_date", None)
                 after_date_str == Get(r.args, "after_date", None)
                 limit_in == PyInt(Get(r.args, "limit", <<"1", "0">>))
                 offset_in == PyInt(Get(r.args, "offset", <<"0">>))
                 limit == PyMin(limit_in, FromNat(100))
                 offset == PyMax(offset_in, FromNat(0))
                 after_dt == IF after_date_str # <<>>
                             THEN V3_parse_api_date(after_date_str) ELSE None
                 before_dt == IF before_date_str # <<>>
                              THEN V3_parse_api_date(before_date_str) ELSE None
                 q == Ascending({id \in Ids(books) :
                          DateInRange(books[id].Book_Publication_Date, after_dt, before_dt)})
                 items == OffsetLimit(q, IntVal(offset), IntVal(limit))
             IN  /\ resp' =
                        IF ~limit_in.ok \/ ~offset_in.ok
                        THEN InternalServerError(req)      \* ValueError, not caught
                        ELSE IF after_date_str # <<>> /\ after_dt = None
                        THEN V3_api_error(req, "Invalid after_date", 400)
                        ELSE IF before_date_str # <<>> /\ before_dt = None
                        THEN V3_api_error(req, "Invalid before_date", 400)
                        ELSE IF BindOverflows(limit) \/ BindOverflows(offset)
                        THEN InternalServerError(req)      \* OverflowError, not caught
                        ELSE Reply(req, 200,
                                   [total |-> Len(q), limit |-> limit, offset |-> offset,
                                    items |-> [i \in 1..Len(items) |->
                                        V2_Book_to_dict(items[i], books[items[i]])]])
                 /\ UNCHANGED dbVars
        ELSE LET body == r.payload
                 missing == {k \in {"Book_Title", "Book_Author", "Book_Genre"} :
                                 Get(body, k, None) = <<>>}
                 raw == Get(body, "Book_Publication_Date", None)
                 b == V2_Book(Strip(Get(body, "Book_Title", None)),
                              Strip(Get(body, "Book_Author", None)),
                              Strip(Get(body, "Book_Genre", None)),
                              Strip(Get(body, "Book_Publication", None)),
                              IF raw # <<>> THEN V3_body_date(raw) ELSE None,
                              Strip(Get(body, "Book_Description", None)))
                 id == NextId(books)
             IN  IF ~r.is_json
                 THEN /\ resp' = V3_api_error(req, "Request body must be JSON", 415)
                      /\ UNCHANGED dbVars
                 ELSE IF missing # {}
                 THEN /\ resp' = V3_api_error(req, "Missing required fields", 400)
                      /\ UNCHANGED dbVars
                 ELSE IF raw # <<>> /\ V3_body_date(raw) = None
                 THEN /\ resp' = V3_api_error(req, "Invalid Book_Publication_Date", 400)
                      /\ UNCHANGED dbVars
                 ELSE /\ books' = Insert(books, id, b)
                      /\ resp' = Reply(req, 201, V2_Book_to_dict(id, b))
                      /\ UNCHANGED <<genres, authors>>

\* api_book_item of variant 3. A PUT assigns the fields in the order of the
\* code and returns 400 at an invalid date without committing, so nothing of
\* that request is stored
V3_api_book_item(r, book_id) ==
    LET req == Join([op |-> "api_book_item", id |-> book_id], r)
    IN  IF CsrfRejects(r) THEN resp' = CsrfError(req) /\ UNCHANGED dbVars
        ELSE IF book_id \notin Ids(books)
        THEN /\ resp' = V3_api_error(req, "Book not found", 404)
             /\ UNCHANGED dbVars
        ELSE IF r.method = "GET"
        THEN /\ resp' = Reply(req, 200, V2_Book_to_dict(book_id, books[book_id]))
             /\ UNCHANGED dbVars
        ELSE IF r.method = "DELETE"
        THEN /\ books' = Delete(books, book_id)
             /\ resp' = Reply(req, 200, <<>>)
             /\ UNCHANGED <<genres, authors>>
        ELSE LET body == r.payload
                 old == books[book_id]
                 Field(k) == IF k \in DOMAIN body THEN Strip(body[k]) ELSE old[k]
                 raw == Get(body, "Book_Publication_Date", <<>>)
                 b == V2_Book(Field("Book_Title"), Field("Book_Author"),
                              Field("Book_Genre"), Field("Book_Publication"),
                              IF "Book_Publication_Date" \in DOMAIN body
                              THEN V3_body_date(raw) ELSE old.Book_Publication_Date,
                              Field("Book_Description"))
             IN  IF ~r.is_json
                 THEN /\ resp' = V3_api_error(req, "Request body must be JSON", 415)
                      /\ UNCHANGED dbVars
                 ELSE IF "Book_Publication_Date" \in DOMAIN body /\ V3_body_date(raw) = None
                 THEN /\ resp' = V3_api_error(req, "Invalid Book_Publication_Date", 400)
                      /\ books' = [books EXCEPT ![book_id] =
                                       shutdown_session(@,
                                           [b EXCEPT !.Book_Publication_Date =
                                                         old.Book_Publication_Date])]
                      /\ UNCHANGED <<genres, authors>>
                 ELSE /\ books' = [books EXCEPT ![book_id] = b]
                      /\ resp' = Reply(req, 200, V2_Book_to_dict(book_id, b))
                      /\ UNCHANGED <<genres, authors>>

\* api_genres_collection / api_authors_collection
V3_api_names_collection(kind, r) ==
    LET req == Join([op |-> ViewName(kind, "api_genres_collection",
                                     "api_authors_collection")], r)
        tbl == Table(kind)
    IN  IF CsrfRejects(r) THEN resp' = CsrfError(req) /\ UNCHANGED dbVars
        ELSE IF r.method = "GET"
        THEN LET limit_in == PyInt(Get(r.args, "limit", <<"1", "0">>))
                 offset_in == PyInt(Get(r.args, "offset", <<"0">>))
                 limit == PyMin(limit_in, FromNat(100))
                 offset == PyMax(offset_in, FromNat(0))
                 q == Ascending(Ids(tbl))
                 items == OffsetLimit(q, IntVal(offset), IntVal(limit))
             IN  /\ resp' =
                        IF ~limit_in.ok \/ ~offset_in.ok
                        THEN InternalServerError(req)      \* ValueError, not caught
                        ELSE IF BindOverflows(limit) \/ BindOverflows(offset)
                        THEN InternalServerError(req)      \* OverflowError, not caught
                        ELSE Reply(req, 200,
                                   [total |-> Len(q), limit |-> limit, offset |-> offset,
                                    items |-> [i \in 1..Len(items) |->
                                        V2_Named_to_dict(kind, items[i], tbl[items[i]])]])
                 /\ UNCHANGED dbVars
        ELSE LET body == r.payload
                 row == V2_Named(kind, Strip(Get(body, NameCol(kind), <<>>)),
                                 Strip(Get(body, TextCol(kind), <<>>)))
                 id == NextId(tbl)
             IN  IF ~r.is_json
                 THEN /\ resp' = V3_api_error(req, "Request body must be JSON", 415)
                      /\ UNCHANGED dbVars
                 ELSE IF Get(body, NameCol(kind), <<>>) = <<>>
                 THEN /\ resp' = V3_api_error(req, "Missing name", 400)
                      /\ UNCHANGED dbVars
                 ELSE IF ~UniqueOk(tbl, id, NameCol(kind), row[NameCol(kind)])
                 THEN /\ resp' = V3_api_error(req, "Database error creating", 400)
                      /\ UNCHANGED dbVars        \* IntegrityError, rollback
                 ELSE /\ SetTable(kind, Insert(tbl, id, row))
                      /\ resp' = Reply(req, 201, V2_Named_to_dict(kind, id, row))

\* api_genre_item / api_author_item of variant 3
V3_api_name_item(kind, r, id) ==
    LET req == Join([op |-> ViewName(kind, "api_genre_item", "api_author_item"),
                     id |-> id], r)
        tbl == Table(kind)
    IN  IF CsrfRejects(r) THEN resp' = CsrfError(req) /\ UNCHANGED dbVars
        ELSE IF id \notin Ids(tbl)
        THEN /\ resp' = V3_api_error(req, "not found", 404)
             /\ UNCHANGED dbVars
        ELSE IF r.method = "GET"
        THEN /\ resp' = Reply(req, 200, V2_Named_to_dict(kind, id, tbl[id]))
             /\ UNCHANGED dbVars
        ELSE IF r.method = "DELETE"
        THEN /\ SetTable(kind, Delete(tbl, id))
             /\ resp' = Reply(req, 200, <<>>)
        ELSE LET body == r.payload
                 Field(k) == IF k \in DOMAIN body THEN Strip(body[k]) ELSE tbl[id][k]
                 row == V2_Named(kind, Field(NameCol(kind)), Field(TextCol(kind)))
             IN  IF ~r.is_json
                 THEN /\ resp' = V3_api_error(req, "Request body must be JSON", 415)
                      /\ UNCHANGED dbVars
                 ELSE IF ~UniqueOk(tbl, id, NameCol(kind), row[NameCol(kind)])
                 THEN /\ resp' = V3_api_error(req, "Database error updating", 400)
                      /\ UNCHANGED dbVars        \* IntegrityError, rollback
                 ELSE /\ SetTable(kind, [tbl EXCEPT ![id] = row])
                      /\ resp' = Reply(req, 200, V2_Named_to_dict(kind, id, row))

(***************************************************************************)
(* Original variant (book_catalog_original.py)                             *)
(***************************************************************************)
\* class Genre (name, description) and class Author (name, bio)
Orig_TextCol(kind) == IF kind = "genres" THEN "description" ELSE "bio"

Orig_Named(kind, name, text) ==
    [k \in {"name", Orig_TextCol(kind)} |-> IF k = "name" THEN name ELSE text]

Orig_Book(title, author_id, genre_id, pub_date, description) ==
    [title |-> title, author_id |-> author_id, genre_id |-> genre_id,
     pub_date |-> pub_date, description |-> description]

\* Genre.to_dict / Author.to_dict
Orig_Named_to_dict(id, row) == Join([id |-> id], row)

\* Book.to_dict: author and genre are loaded through the relationships and
\* are None where the row is gone
Orig_Book_to_dict(id, b) ==
    [id |-> id,
     title |-> b.title,
     author |-> IF b.author_id \in Ids(authors)
                THEN Orig_Named_to_dict(b.author_id, authors[b.author_id]) ELSE None,
     genre |-> IF b.genre_id \in Ids(genres)
               THEN Orig_Named_to_dict(b.genre_id, genres[b.genre_id]) ELSE None,
     publication_date |-> Strftime(b.pub_date),
     description |-> b.description]

\* the database after "flask initdb"
Orig_initdb ==
    /\ genres = <<Orig_Named("genres", <<"F", "a", "n", "t", "a", "s", "y">>, <<"F", "a", "n", "t", "a", "s", "y", " ", "b", "o", "o", "k", "s">>),
                  Orig_Named("genres", <<"S", "c", "i", "e", "n", "c", "e", " ", "F", "i", "c", "t", "i", "o", "n">>, <<"S", "c", "i", "-", "F", "i">>)>>
    /\ authors = <<Orig_Named("authors", <<"J", ".", " ", "R", ".", " ", "R", ".", " ", "T", "o", "l", "k", "i", "e", "n">>, <<"A", "u", "t", "h", "o", "r", " ", "o", "f", " ", "L", "O", "T", "R">>),
                   Orig_Named("authors", <<"I", "s", "a", "a", "c", " ", "A", "s", "i", "m", "o", "v">>, <<"S", "c", "i", "-", "F", "i", " ", "a", "u", "t", "h", "o", "r">>)>>
    /\ books = <<Orig_Book(<<"T", "h", "e", " ", "H", "o", "b", "b", "i", "t">>, 1, 1, <<1937, 9, 21>>, <<"B", "i", "l", "b", "o", "'", "s", " ", "a", "d", "v", "e", "n", "t", "u", "r", "e">>),
                 Orig_Book(<<"F", "o", "u", "n", "d", "a", "t", "i", "o", "n">>, 2, 2, <<1951, 6, 1>>, <<"F", "o", "u", "n", "d", "a", "t", "i", "o", "n", " ", "s", "e", "r", "i", "e", "s">>)>>

\* the database after db.create_all() alone (python book_catalog_original.py)
Orig_create_all == genres = NoRows /\ authors = NoRows /\ books = NoRows

\* limit and offset of the list requests: both fall back to their defaults
\* when either is no integer
Orig_paging(args) ==
    LET limit == PyInt(Get(args, "limit", <<"1", "0">>))
        offset == PyInt(Get(args, "offset", <<"0">>))
    IN  IF limit.ok /\ offset.ok THEN [limit |-> limit, offset |-> offset]
        ELSE [limit |-> FromNat(10), offset |-> FromNat(0)]

\* parse_api_date(pub) or parse_html_date(pub)
Orig_body_date(pub) ==
    IF Orig_parse_api_date(pub) # None THEN Orig_parse_api_date(pub)
    ELSE Orig_parse_html_date(pub)

\* api_books
Orig_api_books(r) ==
    LET req == Join([op |-> "api_books"], r)
    IN  IF r.method = "GET"
        THEN LET after == Orig_parse_api_date(Get(r.args, "after_date", None))
                 before == Orig_parse_api_date(Get(r.args, "before_date", None))
                 pg == Orig_paging(r.args)
                 q == Ascending({id \in Ids(books) :
                                     DateInRange(books[id].pub_date, after, before)})
                 items == OffsetLimit(q, IntVal(pg.offset), IntVal(pg.limit))
             IN  /\ resp' =
                        IF BindOverflows(pg.limit) \/ BindOverflows(pg.offset)
                        THEN InternalServerError(req)      \* OverflowError, not caught
                        ELSE Reply(req, 200, [i \in 1..Len(items) |->
                                        Orig_Book_to_dict(items[i], books[items[i]])])
                 /\ UNCHANGED dbVars
        ELSE LET data == r.payload
                 title == Strip(Get(data, "title", <<>>))
                 pub_date == Orig_body_date(Get(data, "publication_date", None))
                 errors ==
                     (IF title = <<>> THEN {"title"} ELSE {})
                     \cup (IF "author_id" \in DOMAIN data /\ data.author_id \in Ids(authors)
                           THEN {} ELSE {"author_id"})
                     \cup (IF "genre_id" \in DOMAIN data /\ data.genre_id \in Ids(genres)
                           THEN {} ELSE {"genre_id"})
                     \cup (IF pub_date = None THEN {"publication_date"} ELSE {})
                 id == NextId(books)
             IN  IF errors # {}
                 THEN /\ resp' = api_error_multiple(req, errors, 400)
                      /\ UNCHANGED dbVars
                 ELSE LET b == Orig_Book(title, data.author_id, data.genre_id, pub_date,
                                         Get(data, "description", <<>>))
                      IN  /\ books' = Insert(books, id, b)
                          /\ resp' = Reply(req, 201, Orig_Book_to_dict(id, b))
                          /\ UNCHANGED <<genres, authors>>

\* api_book
Orig_api_book(r, book_id) ==
    LET req == Join([op |-> "api_book", id |-> book_id], r)
    IN  IF book_id \notin Ids(books)
        THEN /\ resp' = api_error_single(req, "Book not found", 404)
             /\ UNCHANGED dbVars
        ELSE IF r.method = "GET"
        THEN /\ resp' = Reply(req, 200, Orig_Book_to_dict(book_id, books[book_id]))
             /\ UNCHANGED dbVars
        ELSE IF r.method = "DELETE"
        THEN /\ books' = Delete(books, book_id)
             /\ resp' = Reply(req, 204, <<>>)
             /\ UNCHANGED <<genres, authors>>
        ELSE LET data == r.payload
                 Has(k) == k \in DOMAIN data
                 old == books[book_id]
                 pub_date == Orig_body_date(Get(data, "publication_date", None))
                 errors ==
                     (IF Has("title") /\ Strip(data.title) = <<>> THEN {"title"} ELSE {})
                     \cup (IF Has("author_id") /\ data.author_id \notin Ids(authors)
                           THEN {"author_id"} ELSE {})
                     \cup (IF Has("genre_id") /\ data.genre_id \notin Ids(genres)
                           THEN {"genre_id"} ELSE {})
                     \cup (IF Has("publication_date") /\ pub_date = None
                           THEN {"publication_date"} ELSE {})
                 b == Orig_Book(Get(data, "title", old.title),
                                Get(data, "author_id", old.author_id),
                                Get(data, "genre_id", old.genre_id),
                                IF pub_date # None THEN pub_date ELSE old.pub_date,
                                Get(data, "description", old.description))
             IN  IF errors # {}
                 THEN /\ resp' = api_error_multiple(req, errors, 400)
                      /\ UNCHANGED dbVars
                 ELSE /\ books' = [books EXCEPT ![book_id] = b]
                      /\ resp' = Reply(req, 200, Orig_Book_to_dict(book_id, b))
                      /\ UNCHANGED <<genres, authors>>

\* api_genres / api_authors of the original variant
Orig_api_names(kind, r) ==
    LET req == Join([op |-> ViewName(kind, "api_genres", "api_authors")], r)
        tbl == Table(kind)
    IN  IF r.method = "GET"
        THEN LET pg == Orig_paging(r.args)
                 items == OffsetLimit(Ascending(Ids(tbl)), IntVal(pg.offset),
                                      IntVal(pg.limit))
             IN  /\ resp' =
                        IF BindOverflows(pg.limit) \/ BindOverflows(pg.offset)
                        THEN InternalServerError(req)      \* OverflowError, not caught
                        ELSE Reply(req, 200, [i \in 1..Len(items) |->
                                        Orig_Named_to_dict(items[i], tbl[items[i]])])
                 /\ UNCHANGED dbVars
        ELSE LET name == Strip(Get(r.payload, "name", <<>>))
                 row == Orig_Named(kind, name, Get(r.payload, Orig_TextCol(kind), <<>>))
                 id == NextId(tbl)
             IN  IF name = <<>>
                 THEN /\ resp' = api_error_single(req, "Name required", 400)
                      /\ UNCHANGED dbVars
                 ELSE IF ~UniqueOk(tbl, id, "name", name)
                 THEN /\ resp' = api_error_single(req, "already exists", 400)
                      /\ UNCHANGED dbVars
                 ELSE /\ SetTable(kind, Insert(tbl, id, row))
                      /\ resp' = Reply(req, 201, Orig_Named_to_dict(id, row))

\* api_genre / api_author of the original variant. DELETE removes the row
\* alone: the models declare no cascade, and SQLite does not enforce the
\* foreign keys of the books (no PRAGMA foreign_keys). A PUT whose commit
\* violates the unique name raises IntegrityError, which no handler catches
Orig_api_name(kind, r, id) ==
    LET req == Join([op |-> ViewName(kind, "api_genre", "api_author"), id |-> id], r)
        tbl == Table(kind)
    IN  IF id \notin Ids(tbl)
        THEN /\ resp' = api_error_single(req, "not found", 404)
             /\ UNCHANGED dbVars
        ELSE IF r.method = "GET"
        THEN /\ resp' = Reply(req, 200, Orig_Named_to_dict(id, tbl[id]))
             /\ UNCHANGED dbVars
        ELSE IF r.method = "DELETE"
        THEN /\ SetTable(kind, Delete(tbl, id))
             /\ resp' = Reply(req, 204, <<>>)
        ELSE LET data == r.payload
                 row == Orig_Named(kind, Get(data, "name", tbl[id].name),
                                   Get(data, Orig_TextCol(kind), tbl[id][Orig_TextCol(kind)]))
             IN  IF "name" \in DOMAIN data /\ Strip(data.name) = <<>>
                 THEN /\ resp' = api_error_single(req, "Name cannot be empty", 400)
                      /\ UNCHANGED dbVars
                 ELSE IF ~UniqueOk(tbl, id, "name", row.name)
                 THEN /\ resp' = InternalServerError(req)
                      /\ UNCHANGED dbVars
                 ELSE /\ SetTable(kind, [tbl EXCEPT ![id] = row])
                      /\ resp' = Reply(req, 200, Orig_Named_to_dict(id, row))

\* the HTML routes delete_genre / delete_author (POST /genres/<id>/delete)
Orig_delete_named(kind, id) ==
    LET req == [op |-> ViewName(kind, "delete_genre", "delete_author"),
                method |-> "POST", id |-> id]
    IN  IF id \notin Ids(Table(kind))
        THEN /\ resp' = Reply(req, 404, <<>>)            \* get_or_404
             /\ UNCHANGED dbVars
        ELSE /\ SetTable(kind, Delete(Table(kind), id))
             /\ resp' = Reply(req, 302, <<>>)

\* the HTML route delete_book
Orig_delete_book(book_id) ==
    LET req == [op |-> "delete_book", method |-> "POST", id |-> book_id]
    IN  IF book_id \notin Ids(books)
        THEN /\ resp' = Reply(req, 404, <<>>)            \* get_or_404
             /\ UNCHANGED dbVars
        ELSE /\ books' = Delete(books, book_id)
             /\ resp' = Reply(req, 302, <<>>)
             /\ UNCHANGED <<genres, authors>>

(***************************************************************************)
(* remove_3.py. Rows are those of variant 2; every POST, PUT and DELETE    *)
(* passes CSRFProtect(app) first.                                          *)
(***************************************************************************)
\* date.isoformat()
Isoformat(d) ==
    ZeroPad(IntToDigits(d[1]), 4) \o <<"-">> \o ZeroPad(IntToDigits(d[2]), 2)
        \o <<"-">> \o ZeroPad(IntToDigits(d[3]), 2)

R3_Book_to_dict(id, b) ==
    [Book_ID |-> id,
     Book_Title |-> b.Book_Title,
     Book_Author |-> b.Book_Author,
     Book_Genre |-> b.Book_Genre,
     Book_Publication |-> b.Book_Publication,
     Book_Publication_Date |->
         IF b.Book_Publication_Date # None
         THEN Isoformat(b.Book_Publication_Date) ELSE None,
     Book_Description |-> b.Book_Description]

\* what dateutil's parser may answer for a text: the date for an ISO date;
\* for any other text it is not settled here whether it raises (None) or
\* finds some date
DateutilAnswers(s) ==
    IF StrptimeIso(s) # None /\ Len(s) = 10 THEN {StrptimeIso(s)}
    ELSE {None, <<2020, 2, 1>>}

\* parse_yyyymmdd of remove_3.py: (date, error); du is what
\* date_parser.parse(value) answers if it is called
R3_parse_yyyymmdd(value, du) ==
    IF value = <<>> THEN [dt |-> None, err |-> FALSE]
    ELSE IF Len(value) = 8 /\ AllDigits(value)
    THEN [dt |-> Strptime(value, <<>>), err |-> Strptime(value, <<>>) = None]
    ELSE [dt |-> du, err |-> du = None]

\* get_json_field: val is None where the key is absent (present is FALSE)
R3_get_json_field(data, name, required, maxlen) ==
    IF name \notin DOMAIN data
    THEN [present |-> FALSE, val |-> None, err |-> required]
    ELSE LET s == Strip(data[name])
         IN  IF maxlen > 0 /\ Len(s) > maxlen
             THEN [present |-> FALSE, val |-> None, err |-> TRUE]
             ELSE [present |-> TRUE, val |-> s, err |-> FALSE]

\* the fields of a book body with their maxlen (0: none given)
R3_book_fields(data, required) ==
    [k \in BookColumns |->
        R3_get_json_field(data, k,
            required /\ k \in {"Book_Title", "Book_Author", "Book_Genre"},
            CASE k = "Book_Title" -> 300
              [] k = "Book_Author" -> 200
              [] k = "Book_Genre" -> 120
              [] k = "Book_Publication" -> 200
              [] k = "Book_Publication_Date" -> 0
              [] k = "Book_Description" -> 5000)]

\* seed_if_empty on a fresh database file
R3_seed_if_empty ==
    /\ genres = <<V2_Named("genres", TxtFiction, <<"F", "i", "c", "t", "i", "o", "n", "a", "l", " ", "w", "o", "r", "k", "s">>),
                  V2_Named("genres", TxtNonFiction, <<"N", "o", "n", "-", "f", "i", "c", "t", "i", "o", "n", "a", "l", " ", "w", "o", "r", "k", "s">>)>>
    /\ authors = <<V2_Named("authors", TxtJaneDoe, <<"A", "n", " ", "e", "x", "e", "m", "p", "l", "a", "r", "y", " ", "a", "u", "t", "h", "o", "r", ".">>),
                   V2_Named("authors", TxtJohnSmith, <<"A", "n", "o", "t", "h", "e", "r", " ", "a", "u", "t", "h", "o", "r", ".">>)>>
    /\ books = <<V2_Book(<<"F", "i", "r", "s", "t", " ", "B", "o", "o", "k">>, TxtJaneDoe, TxtFiction,
                         <<"F", "i", "r", "s", "t", "P", "u", "b">>, <<2020, 1, 15>>,
                         <<"A", " ", "s", "a", "m", "p", "l", "e", " ", "f", "i", "r", "s", "t", " ", "b", "o", "o", "k", ".">>),
                 V2_Book(<<"S", "e", "c", "o", "n", "d", " ", "B", "o", "o", "k">>, TxtJohnSmith, TxtNonFiction,
                         <<"S", "e", "c", "o", "n", "d", "P", "u", "b">>, <<2021, 6, 1>>,
                         <<"A", " ", "s", "a", "m", "p", "l", "e", " ", "s", "e", "c", "o", "n", "d", " ", "b", "o", "o", "k", ".">>)>>

\* api_books of remove_3.py; dua and dub are dateutil's answers for the
\* after and before bounds (GET), dua the one for the body's date (POST)
R3_api_books(r, dua, dub) ==
    LET req == Join([op |-> "api_books"], r)
    IN  IF CsrfRejects(r) THEN resp' = CsrfError(req) /\ UNCHANGED dbVars
        ELSE IF r.method = "GET"
        THEN LET before_raw == IF Get(r.args, "before_date", None) # <<>>
                               THEN r.args.before_date ELSE Get(r.args, "before", None)
                 after_raw == IF Get(r.args, "after_date", None) # <<>>
                              THEN r.args.after_date ELSE Get(r.args, "after", None)
                 limit_raw == PyInt(Get(r.args, "limit", <<>>))
                 offset_raw == PyInt(Get(r.args, "offset", <<>>))
                 Positive(n) == n.ok /\ ~n.neg /\ n.mag # <<"0">>
                 before == R3_parse_yyyymmdd(before_raw, dub)
                 after == R3_parse_yyyymmdd(after_raw, dua)
                 q == Ascending({id \in Ids(books) :
                          DateInRange(books[id].Book_Publication_Date, after.dt, before.dt)})
                 rows == OffsetLimit(q, IF Positive(offset_raw) THEN IntVal(offset_raw) ELSE 0,
                                     IF Positive(limit_raw) THEN IntVal(limit_raw) ELSE 0 - 1)
             IN  /\ resp' =
                        IF after.err \/ before.err
                        THEN api_error_single(req, "Invalid date format", 400)
                        ELSE IF \/ Positive(limit_raw) /\ BindOverflows(limit_raw)
                                \/ Positive(offset_raw) /\ BindOverflows(offset_raw)
                        THEN InternalServerError(req)      \* OverflowError, not caught
                        ELSE Reply(req, 200, [i \in 1..Len(rows) |->
                                        R3_Book_to_dict(rows[i], books[rows[i]])])
                 /\ UNCHANGED dbVars
        ELSE LET f == R3_book_fields(r.payload, TRUE)
                 pubdate == R3_parse_yyyymmdd(f.Book_Publication_Date.val, dua)
                 b == V2_Book(f.Book_Title.val, f.Book_Author.val, f.Book_Genre.val,
                              f.Book_Publication.val, pubdate.dt, f.Book_Description.val)
                 id == NextId(books)
             IN  IF ~r.is_json
                 THEN /\ resp' = api_error_single(req,
                                     "Request must have Content-Type: application/json", 415)
                      /\ UNCHANGED dbVars
                 ELSE IF \E k \in BookColumns : f[k].err
                 THEN /\ resp' = Reply(req, 400, [message |-> {k \in BookColumns : f[k].err}])
                      /\ UNCHANGED dbVars
                 ELSE IF pubdate.err
                 THEN /\ resp' = api_error_single(req, "Invalid date format", 400)
                      /\ UNCHANGED dbVars
                 ELSE /\ books' = Insert(books, id, b)
                      /\ resp' = Reply(req, 201, R3_Book_to_dict(id, b))
                      /\ UNCHANGED <<genres, authors>>

\* api_book_detail. A PUT that fails at the date returns before the commit,
\* so none of its assignments is stored
R3_api_book_detail(r, book_id, du) ==
    LET req == Join([op |-> "api_book_detail", id |-> book_id], r)
    IN  IF CsrfRejects(r) THEN resp' = CsrfError(req) /\ UNCHANGED dbVars
        ELSE IF book_id \notin Ids(books)
        THEN /\ resp' = api_error_single(req, "Book not found", 404)
             /\ UNCHANGED dbVars
        ELSE IF r.method = "GET"
        THEN /\ resp' = Reply(req, 200, R3_Book_to_dict(book_id, books[book_id]))
             /\ UNCHANGED dbVars
        ELSE IF r.method = "DELETE"
        THEN /\ books' = Delete(books, book_id)
             /\ resp' = Reply(req, 200, <<>>)
             /\ UNCHANGED <<genres, authors>>
        ELSE LET f == R3_book_fields(r.payload, FALSE)
                 old == books[book_id]
                 Field(k) == IF f[k].present THEN f[k].val ELSE old[k]
                 pubdate == R3_parse_yyyymmdd(f.Book_Publication_Date.val, du)
                 b == V2_Book(Field("Book_Title"), Field("Book_Author"),
                              Field("Book_Genre"), Field("Book_Publication"),
                              IF f.Book_Publication_Date.present
                              THEN pubdate.dt ELSE old.Book_Publication_Date,
                              Field("Book_Description"))
             IN  IF ~r.is_json
                 THEN /\ resp' = api_error_single(req,
                                     "Request must have Content-Type: application/json", 415)
                      /\ UNCHANGED dbVars
                 ELSE IF \E k \in BookColumns : f[k].err
                 THEN /\ resp' = Reply(req, 400, [message |-> {k \in BookColumns : f[k].err}])
                      /\ UNCHANGED dbVars
                 ELSE IF f.Book_Publication_Date.present /\ pubdate.err
                 THEN /\ resp' = api_error_single(req, "Invalid date format", 400)
                      /\ UNCHANGED dbVars
                 ELSE /\ books' = [books EXCEPT ![book_id] = b]
                      /\ resp' = Reply(req, 200, R3_Book_to_dict(book_id, b))
                      /\ UNCHANGED <<genres, authors>>

\* maxlen of the name and of the text of a genre / an author
R3_NameWidth(kind) == IF kind = "genres" THEN 120 ELSE 200

R3_TextWidth(kind) == IF kind = "genres" THEN 1000 ELSE 2000

\* api_genres / api_authors of remove_3.py. A commit that violates the
\* unique name is caught by "except Exception" and answered 500
R3_api_names(kind, r) ==
    LET req == Join([op |-> ViewName(kind, "api_genres", "api_authors")], r)
        tbl == Table(kind)
    IN  IF CsrfRejects(r) THEN resp' = CsrfError(req) /\ UNCHANGED dbVars
        ELSE IF r.method = "GET"
        THEN LET limit == PyInt(Get(r.args, "limit", <<>>))
                 offset == PyInt(Get(r.args, "offset", <<>>))
                 Given(n) == n.ok /\ n.mag # <<"0">>
                 rows == OffsetLimit(Ascending(Ids(tbl)),
                                     IF Given(offset) THEN IntVal(offset) ELSE 0,
                                     IF Given(limit) THEN IntVal(limit) ELSE 0 - 1)
             IN  /\ resp' =
                        IF \/ Given(limit) /\ BindOverflows(limit)
                           \/ Given(offset) /\ BindOverflows(offset)
                        THEN InternalServerError(req)      \* OverflowError, not caught
                        ELSE Reply(req, 200, [i \in 1..Len(rows) |->
                                        V2_Named_to_dict(kind, rows[i], tbl[rows[i]])])
                 /\ UNCHANGED dbVars
        ELSE LET name == R3_get_json_field(r.payload, NameCol(kind), TRUE, R3_NameWidth(kind))
                 text == R3_get_json_field(r.payload, TextCol(kind), FALSE, R3_TextWidth(kind))
                 row == V2_Named(kind, name.val, text.val)
                 id == NextId(tbl)
             IN  IF ~r.is_json
                 THEN /\ resp' = api_error_single(req,
                                     "Request must have Content-Type: application/json", 415)
                      /\ UNCHANGED dbVars
                 ELSE IF name.err \/ text.err
                 THEN /\ resp' = Reply(req, 400, [message |->
                                     (IF name.err THEN {NameCol(kind)} ELSE {})
                                     \cup (IF text.err THEN {TextCol(kind)} ELSE {})])
                      /\ UNCHANGED dbVars
                 ELSE IF ~UniqueOk(tbl, id, NameCol(kind), name.val)
                 THEN /\ resp' = api_error_single(req, "UNIQUE constraint failed", 500)
                      /\ UNCHANGED dbVars        \* IntegrityError, rollback
                 ELSE /\ SetTable(kind, Insert(tbl, id, row))
                      /\ resp' = Reply(req, 201, V2_Named_to_dict(kind, id, row))

\* api_genre_detail / api_author_detail
R3_api_name_detail(kind, r, id) ==
    LET req == Join([op |-> ViewName(kind, "api_genre_detail", "api_author_detail"),
                     id |-> id], r)
        tbl == Table(kind)
    IN  IF CsrfRejects(r) THEN resp' = CsrfError(req) /\ UNCHANGED dbVars
        ELSE IF id \notin Ids(tbl)
        THEN /\ resp' = api_error_single(req, "not found", 404)
             /\ UNCHANGED dbVars
        ELSE IF r.method = "GET"
        THEN /\ resp' = Reply(req, 200, V2_Named_to_dict(kind, id, tbl[id]))
             /\ UNCHANGED dbVars
        ELSE IF r.method = "DELETE"
        THEN /\ SetTable(kind, Delete(tbl, id))
             /\ resp' = Reply(req, 200, <<>>)
        ELSE LET name == R3_get_json_field(r.payload, NameCol(kind), FALSE, R3_NameWidth(kind))
                 text == R3_get_json_field(r.payload, TextCol(kind), FALSE, R3_TextWidth(kind))
                 row == V2_Named(kind,
                            IF name.present THEN name.val ELSE tbl[id][NameCol(kind)],
                            IF text.present THEN text.val ELSE tbl[id][TextCol(kind)])
             IN  IF ~r.is_json
                 THEN /\ resp' = api_error_single(req,
                                     "Request must have Content-Type: application/json", 415)
                      /\ UNCHANGED dbVars
                 ELSE IF name.err \/ text.err
                 THEN /\ resp' = Reply(req, 400, [message |->
                                     (IF name.err THEN {NameCol(kind)} ELSE {})
                                     \cup (IF text.err THEN {TextCol(kind)} ELSE {})])
                      /\ UNCHANGED dbVars
                 ELSE IF ~UniqueOk(tbl, id, NameCol(kind), row[NameCol(kind)])
                 THEN /\ resp' = api_error_single(req, "UNIQUE constraint failed", 500)
                      /\ UNCHANGED dbVars        \* IntegrityError, rollback
                 ELSE /\ SetTable(kind, [tbl EXCEPT ![id] = row])
                      /\ resp' = Reply(req, 200, V2_Named_to_dict(kind, id, row))

(***************************************************************************)
(* Variant 4 (CHATGPT_book_catalog_secure_code_4.py). Genres and authors   *)
(* have the columns of the original variant (name, description / bio);     *)
(* every POST, PUT and DELETE passes CSRFProtect(app) first.               *)
(***************************************************************************)
V4_Book(title, author_id, genre_id, publication_date, description) ==
    [title |-> title, author_id |-> author_id, genre_id |-> genre_id,
     publication_date |-> publication_date, description |-> description]

\* book_to_dict: author and genre are loaded through the relationships
V4_book_to_dict(id, b) ==
    [id |-> id,
     title |-> b.title,
     author |-> IF b.author_id \in Ids(authors)
                THEN [id |-> b.author_id, name |-> authors[b.author_id].name] ELSE None,
     genre |-> IF b.genre_id \in Ids(genres)
               THEN [id |-> b.genre_id, name |-> genres[b.genre_id].name] ELSE None,
     publication_date |-> IF b.publication_date # None
                          THEN Strftime(b.publication_date) ELSE None,
     description |-> b.description]

\* the items of the genre and author lists and the bodies of their items
V4_Named_to_dict(id, row) == Join([id |-> id], row)

\* bleach.clean(text, strip=True) on a text without tags: the characters of
\* markup are escaped, an entity that is already there is kept
RECURSIVE BleachClean(_)
BleachClean(s) ==
    LET StartsWith(t, p) == Len(t) >= Len(p) /\ SubSeq(t, 1, Len(p)) = p
        entity == \E e \in {<<"a", "m", "p", ";">>, <<"l", "t", ";">>, <<"g", "t", ";">>} :
                      StartsWith(Tail(s), e)
    IN  IF s = <<>> THEN <<>>
        ELSE (CASE Head(s) = "&" /\ ~entity -> <<"&", "a", "m", "p", ";">>
                [] Head(s) = "<" -> <<"&", "l", "t", ";">>
                [] Head(s) = ">" -> <<"&", "g", "t", ";">>
                [] OTHER -> <<Head(s)>>) \o BleachClean(Tail(s))

\* clamp_limit without its upper bound
V4_clamp_limit_unbounded(limit) ==
    LET n == PyInt(limit)
    IN  IF limit = None \/ ~n.ok THEN FromNat(10)
        ELSE IF ~IntLE(FromNat(1), n) THEN FromNat(10)
        ELSE n

\* clamp_limit
V4_clamp_limit(limit) ==
    LET n == PyInt(limit)
    IN  IF limit = None \/ ~n.ok THEN FromNat(10)
        ELSE IF ~IntLE(FromNat(1), n) THEN FromNat(10)
        ELSE PyMin(n, FromNat(100))

\* api_pagination_params
V4_api_pagination_params(args) ==
    LET n == PyInt(Get(args, "offset", <<"0">>))
    IN  [limit |-> V4_clamp_limit(Get(args, "limit", None)),
         offset |-> IF ~n.ok \/ n.neg THEN FromNat(0) ELSE n]

\* parse_yyyymmdd of variant 4: the date, or None where it raises
\* ValueError; du is what dateutil's parser answers if it is called
V4_parse_yyyymmdd(date_str, du) ==
    LET s == Strip(date_str)
    IN  IF date_str = <<>> THEN None
        ELSE IF Strptime(s, <<>>) # None THEN Strptime(s, <<>>)
        ELSE IF StrptimeIso(s) # None THEN StrptimeIso(s)
        ELSE du

\* the rows "flask init-db" adds to an empty database
V4_sample ==
    [authors |-> <<Orig_Named("authors", <<"J", "a", "n", "e", " ", "A", "u", "s", "t", "e", "n">>, <<"E", "n", "g", "l", "i", "s", "h", " ", "n", "o", "v", "e", "l", "i", "s", "t", " ", "k", "n", "o", "w", "n", " ", "f", "o", "r", " ", "r", "e", "a", "l", "i", "s", "m", " ", "a", "n", "d", " ", "i", "r", "o", "n", "y", ".">>),
                   Orig_Named("authors", <<"M", "a", "r", "k", " ", "T", "w", "a", "i", "n">>, <<"A", "m", "e", "r", "i", "c", "a", "n", " ", "w", "r", "i", "t", "e", "r", ",", " ", "h", "u", "m", "o", "r", "i", "s", "t", ".">>)>>,
     genres |-> <<Orig_Named("genres", TxtFiction, <<"F", "i", "c", "t", "i", "o", "n", "a", "l", " ", "w", "o", "r", "k", "s">>),
                  Orig_Named("genres", <<"S", "a", "t", "i", "r", "e">>, <<"S", "a", "t", "i", "r", "i", "c", "a", "l", " ", "w", "o", "r", "k", "s">>)>>,
     books |-> <<V4_Book(<<"P", "r", "i", "d", "e", " ", "a", "n", "d", " ", "P", "r", "e", "j", "u", "d", "i", "c", "e">>, 1, 1, <<1813, 1, 28>>,
                         <<"A", " ", "c", "l", "a", "s", "s", "i", "c", " ", "n", "o", "v", "e", "l", ".">>),
                 V4_Book(<<"A", "d", "v", "e", "n", "t", "u", "r", "e", "s", " ", "o", "f", " ", "H", "u", "c", "k", "l", "e", "b", "e", "r", "r", "y", " ", "F", "i", "n", "n">>, 2, 2, <<1884, 12, 10>>,
                         <<"A", " ", "c", "l", "a", "s", "s", "i", "c", " ", "A", "m", "e", "r", "i", "c", "a", "n", " ", "n", "o", "v", "e", "l", ".">>)>>]

\* the database after "flask init-db"
V4_init_db ==
    /\ authors = V4_sample.authors
    /\ genres = V4_sample.genres
    /\ books = V4_sample.books

\* isinstance(x, int) for a value of a JSON body: an integer, or None
V4_IsInt(x) == x # None

\* Author.query.get(n) / Genre.query.get(n) finds a row
V4_Found(tbl, n) == ~BindOverflows(n) /\ IntVal(n) \in Ids(tbl)

\* api_books of variant 4; dua and dub are dateutil's answers for the after
\* and before bounds (GET), dua the one for the body's date (POST)
V4_api_books(r, dua, dub) ==
    LET req == Join([op |-> "api_books"], r)
    IN  IF CsrfRejects(r) THEN resp' = CsrfError(req) /\ UNCHANGED dbVars
        ELSE IF r.method = "GET"
        THEN LET pg == V4_api_pagination_params(r.args)
                 after == Get(r.args, "after_date", None)
                 before == Get(r.args, "before_date", None)
                 after_d == V4_parse_yyyymmdd(after, dua)
                 before_d == V4_parse_yyyymmdd(before, dub)
                 query == Ascending({id \in Ids(books) :
                              DateInRange(books[id].publication_date, after_d, before_d)})
                 items == OffsetLimit(query, IntVal(pg.offset), IntVal(pg.limit))
             IN  /\ resp' =
                        IF (after # <<>> /\ after_d = None) \/ (before # <<>> /\ before_d = None)
                        THEN Reply(req, 400, [message |-> "Invalid date format"])
                        ELSE IF BindOverflows(pg.offset)
                        THEN InternalServerError(req)      \* OverflowError, not caught
                        ELSE Reply(req, 200,
                                   [count |-> Len(items), total |-> Len(query),
                                    limit |-> pg.limit, offset |-> pg.offset,
                                    books |-> [i \in 1..Len(items) |->
                                        V4_book_to_dict(items[i], books[items[i]])]])
                 /\ UNCHANGED dbVars
        ELSE LET data == IF r.is_json THEN r.payload ELSE None
                 title == Strip(Get(data, "title", <<>>))
                 author_id == Get(data, "author_id", None)
                 genre_id == Get(data, "genre_id", None)
                 pub_date == V4_parse_yyyymmdd(Get(data, "publication_date", None), dua)
                 errors ==
                     (IF title = <<>> THEN {"title"} ELSE {})
                     \cup (IF V4_IsInt(author_id) /\ V4_Found(authors, author_id)
                           THEN {} ELSE {"author_id"})
                     \cup (IF V4_IsInt(genre_id) /\ V4_Found(genres, genre_id)
                           THEN {} ELSE {"genre_id"})
                     \cup (IF pub_date = None THEN {"publication_date"} ELSE {})
                 id == NextId(books)
             IN  IF DOMAIN data = {}
                 THEN /\ resp' = Reply(req, 400, [message |-> "Invalid JSON body"])
                      /\ UNCHANGED dbVars
                 ELSE IF \/ V4_IsInt(author_id) /\ BindOverflows(author_id)
                         \/ V4_IsInt(genre_id) /\ BindOverflows(genre_id)
                 THEN /\ resp' = InternalServerError(req)  \* OverflowError, not caught
                      /\ UNCHANGED dbVars
                 ELSE IF errors # {}
                 THEN /\ resp' = Reply(req, 400, [message |-> errors])
                      /\ UNCHANGED dbVars
                 ELSE LET b == V4_Book(title, IntVal(author_id), IntVal(genre_id), pub_date,
                                       BleachClean(Get(data, "description", <<>>)))
                      IN  /\ books' = Insert(books, id, b)
                          /\ resp' = Reply(req, 201, V4_book_to_dict(id, b))
                          /\ UNCHANGED <<genres, authors>>

\* api_book_item of variant 4
V4_api_book_item(r, book_id, du) ==
    LET req == Join([op |-> "api_book_item", id |-> book_id], r)
    IN  IF CsrfRejects(r) THEN resp' = CsrfError(req) /\ UNCHANGED dbVars
        ELSE IF book_id \notin Ids(books)
        THEN /\ resp' = Reply(req, 404, [message |-> "Book not found"])
             /\ UNCHANGED dbVars
        ELSE IF r.method = "GET"
        THEN /\ resp' = Reply(req, 200, V4_book_to_dict(book_id, books[book_id]))
             /\ UNCHANGED dbVars
        ELSE IF r.method = "DELETE"
        THEN /\ books' = Delete(books, book_id)
             /\ resp' = Reply(req, 204, <<>>)
             /\ UNCHANGED <<genres, authors>>
        ELSE LET data == IF r.is_json THEN r.payload ELSE None
                 Has(k) == k \in DOMAIN data
                 old == books[book_id]
                 pub_date == V4_parse_yyyymmdd(Get(data, "publication_date", None), du)
                 errors ==
                     (IF Has("title") /\ Strip(data.title) = <<>> THEN {"title"} ELSE {})
                     \cup (IF Has("author_id") /\ ~(V4_IsInt(data.author_id)
                                                    /\ V4_Found(authors, data.author_id))
                           THEN {"author_id"} ELSE {})
                     \cup (IF Has("genre_id") /\ ~(V4_IsInt(data.genre_id)
                                                   /\ V4_Found(genres, data.genre_id))
                           THEN {"genre_id"} ELSE {})
                     \cup (IF Has("publication_date") /\ pub_date = None
                           THEN {"publication_date"} ELSE {})
                 b == V4_Book(IF Has("title") THEN Strip(data.title) ELSE old.title,
                              IF Has("author_id") THEN IntVal(data.author_id)
                              ELSE old.author_id,
                              IF Has("genre_id") THEN IntVal(data.genre_id)
                              ELSE old.genre_id,
                              IF Has("publication_date") THEN pub_date
                              ELSE old.publication_date,
                              IF Has("description") THEN BleachClean(data.description)
                              ELSE old.description)
             IN  IF DOMAIN data = {}
                 THEN /\ resp' = Reply(req, 400, [message |-> "Invalid JSON body"])
                      /\ UNCHANGED dbVars
                 ELSE IF \/ Has("author_id") /\ V4_IsInt(data.author_id)
                                             /\ BindOverflows(data.author_id)
                         \/ Has("genre_id") /\ V4_IsInt(data.genre_id)
                                            /\ BindOverflows(data.genre_id)
                 THEN /\ resp' = InternalServerError(req)  \* OverflowError, not caught
                      /\ UNCHANGED dbVars
                 ELSE IF errors # {}
                 THEN /\ resp' = Reply(req, 400, [message |-> errors])
                      /\ UNCHANGED dbVars
                 ELSE /\ books' = [books EXCEPT ![book_id] = b]
                      /\ resp' = Reply(req, 200, V4_book_to_dict(book_id, b))
                      /\ UNCHANGED <<genres, authors>>

\* unique=True of Genre.name; Author.name has index=True alone
V4_NameFree(kind, id, name) ==
    kind = "authors" \/ UniqueOk(genres, id, "name", name)

\* db.session.delete(genre / author): cascade="all, delete-orphan" deletes
\* the books of the row with it
V4_delete_named(kind, id) ==
    /\ IF kind = "genres"
       THEN genres' = Delete(genres, id) /\ UNCHANGED authors
       ELSE authors' = Delete(authors, id) /\ UNCHANGED genres
    /\ books' = [b \in {j \in Ids(books) :
                            books[j][IF kind = "genres" THEN "genre_id" ELSE "author_id"] # id}
                    |-> books[b]]

\* api_genres / api_authors of variant 4
V4_api_names(kind, r) ==
    LET req == Join([op |-> ViewName(kind, "api_genres", "api_authors")], r)
        tbl == Table(kind)
    IN  IF CsrfRejects(r) THEN resp' = CsrfError(req) /\ UNCHANGED dbVars
        ELSE IF r.method = "GET"
        THEN LET pg == V4_api_pagination_params(r.args)
                 q == Ascending(Ids(tbl))
                 items == OffsetLimit(q, IntVal(pg.offset), IntVal(pg.limit))
             IN  /\ resp' =
                        IF BindOverflows(pg.offset)
                        THEN InternalServerError(req)      \* OverflowError, not caught
                        ELSE Reply(req, 200,
                                   [count |-> Len(items), total |-> Len(q),
                                    limit |-> pg.limit, offset |-> pg.offset,
                                    items |-> [i \in 1..Len(items) |->
                                        V4_Named_to_dict(items[i], tbl[items[i]])]])
                 /\ UNCHANGED dbVars
        ELSE LET data == IF r.is_json THEN r.payload ELSE None
                 name == Strip(Get(data, "name", <<>>))
                 row == Orig_Named(kind, name,
                                   BleachClean(Get(data, Orig_TextCol(kind), <<>>)))
                 id == NextId(tbl)
             IN  IF DOMAIN data = {}
                 THEN /\ resp' = Reply(req, 400, [message |-> "Invalid JSON body"])
                      /\ UNCHANGED dbVars
                 ELSE IF name = <<>>
                 THEN /\ resp' = Reply(req, 400, [message |-> {"name"}])
                      /\ UNCHANGED dbVars
                 ELSE IF ~V4_NameFree(kind, id, name)
                 THEN /\ resp' = Reply(req, 400, [message |-> "Genre name probably duplicate"])
                      /\ UNCHANGED dbVars        \* IntegrityError, rollback
                 ELSE /\ SetTable(kind, Insert(tbl, id, row))
                      /\ resp' = Reply(req, 201, V4_Named_to_dict(id, row))

\* api_genre_item / api_author_item of variant 4. The commit of a PUT that
\* gives a genre the name of another raises IntegrityError, not caught
V4_api_name_item(kind, r, id) ==
    LET req == Join([op |-> ViewName(kind, "api_genre_item", "api_author_item"),
                     id |-> id], r)
        tbl == Table(kind)
    IN  IF CsrfRejects(r) THEN resp' = CsrfError(req) /\ UNCHANGED dbVars
        ELSE IF id \notin Ids(tbl)
        THEN /\ resp' = Reply(req, 404, [message |-> "not found"])
             /\ UNCHANGED dbVars
        ELSE IF r.method = "GET"
        THEN /\ resp' = Reply(req, 200, V4_Named_to_dict(id, tbl[id]))
             /\ UNCHANGED dbVars
        ELSE IF r.method = "DELETE"
        THEN /\ V4_delete_named(kind, id)
             /\ resp' = Reply(req, 204, <<>>)
        ELSE LET data == IF r.is_json THEN r.payload ELSE None
                 Has(k) == k \in DOMAIN data
                 row == Orig_Named(kind,
                            IF Has("name") THEN Strip(data.name) ELSE tbl[id].name,
                            IF Has(Orig_TextCol(kind))
                            THEN BleachClean(data[Orig_TextCol(kind)])
                            ELSE tbl[id][Orig_TextCol(kind)])
             IN  IF DOMAIN data = {}
                 THEN /\ resp' = Reply(req, 400, [message |-> "Invalid JSON body"])
                      /\ UNCHANGED dbVars
                 ELSE IF Has("name") /\ Strip(data.name) = <<>>
                 THEN /\ resp' = Reply(req, 400, [message |-> {"name"}])
                      /\ UNCHANGED dbVars
                 ELSE IF ~V4_NameFree(kind, id, row.name)
                 THEN /\ resp' = InternalServerError(req)
                      /\ UNCHANGED dbVars
                 ELSE /\ SetTable(kind, [tbl EXCEPT ![id] = row])
                      /\ resp' = Reply(req, 200, V4_Named_to_dict(id, row))

\* a form posted to an HTML route, as the view function sees it in
\* request.form
SUBMIT(form) == [method |-> "POST", form |-> form]

\* GenreForm / AuthorForm validate: DataRequired and Length of the name,
\* Length of the text
V4_NamedForm_validate(kind, form) ==
    /\ Strip(Get(form, "name", <<>>)) # <<>>
    /\ Len(Get(form, "name", <<>>)) <= (IF kind = "genres" THEN 100 ELSE 150)
    /\ Len(Get(form, Orig_TextCol(kind), <<>>)) <= (IF kind = "genres" THEN 1000 ELSE 2000)

\* genre_create / author_create: 302 after the row is stored, 200 with the
\* form again otherwise. author_create has no try around its commit, and the
\* authors have no unique name to violate
V4_named_create(kind, r) ==
    LET req == Join([op |-> ViewName(kind, "genre_create", "author_create")], r)
        tbl == Table(kind)
        id == NextId(tbl)
        row == Orig_Named(kind, Strip(Get(r.form, "name", <<>>)),
                          BleachClean(Get(r.form, Orig_TextCol(kind), <<>>)))
    IN  IF CsrfRejects(r) THEN resp' = CsrfError(req) /\ UNCHANGED dbVars
        ELSE IF r.method = "GET" \/ ~V4_NamedForm_validate(kind, r.form)
        THEN /\ resp' = Reply(req, 200, <<>>)
             /\ UNCHANGED dbVars
        ELSE IF ~V4_NameFree(kind, id, row.name)
        THEN /\ resp' = Reply(req, 200, <<>>)            \* rollback, flash
             /\ UNCHANGED dbVars
        ELSE /\ SetTable(kind, Insert(tbl, id, row))
             /\ resp' = Reply(req, 302, <<>>)

\* genre_edit / author_edit: neither has a try around its commit
V4_named_edit(kind, r, id) ==
    LET req == Join([op |-> ViewName(kind, "genre_edit", "author_edit"), id |-> id], r)
        tbl == Table(kind)
        row == Orig_Named(kind, Strip(Get(r.form, "name", <<>>)),
                          BleachClean(Get(r.form, Orig_TextCol(kind), <<>>)))
    IN  IF CsrfRejects(r) THEN resp' = CsrfError(req) /\ UNCHANGED dbVars
        ELSE IF id \notin Ids(tbl)
        THEN /\ resp' = Reply(req, 404, <<>>)            \* get_or_404
             /\ UNCHANGED dbVars
        ELSE IF r.method = "GET" \/ ~V4_NamedForm_validate(kind, r.form)
        THEN /\ resp' = Reply(req, 200, <<>>)
             /\ UNCHANGED dbVars
        ELSE IF ~V4_NameFree(kind, id, row.name)
        THEN /\ resp' = InternalServerError(req)         \* IntegrityError, not caught
             /\ UNCHANGED dbVars
        ELSE /\ SetTable(kind, [tbl EXCEPT ![id] = row])
             /\ resp' = Reply(req, 302, <<>>)

\* genre_delete / author_delete: the row and its books go when the form
\* says confirm=yes
V4_named_delete(kind, r, id) ==
    LET req == Join([op |-> ViewName(kind, "genre_delete", "author_delete"), id |-> id], r)
    IN  IF CsrfRejects(r) THEN resp' = CsrfError(req) /\ UNCHANGED dbVars
        ELSE IF id \notin Ids(Table(kind))
        THEN /\ resp' = Reply(req, 404, <<>>)            \* get_or_404
             /\ UNCHANGED dbVars
        ELSE IF r.method = "GET"
        THEN /\ resp' = Reply(req, 200, <<>>)
             /\ UNCHANGED dbVars
        ELSE IF Get(r.form, "confirm", None) = <<"y", "e", "s">>
        THEN /\ V4_delete_named(kind, id)
             /\ resp' = Reply(req, 302, <<>>)
        ELSE /\ resp' = Reply(req, 302, <<>>)
             /\ UNCHANGED dbVars

\* book_delete
V4_book_delete(r, book_id) ==
    LET req == Join([op |-> "book_delete", id |-> book_id], r)
    IN  IF CsrfRejects(r) THEN resp' = CsrfError(req) /\ UNCHANGED dbVars
        ELSE IF book_id \notin Ids(books)
        THEN /\ resp' = Reply(req, 404, <<>>)            \* get_or_404
             /\ UNCHANGED dbVars
        ELSE IF r.method = "GET"
        THEN /\ resp' = Reply(req, 200, <<>>)
             /\ UNCHANGED dbVars
        ELSE IF Get(r.form, "confirm", None) = <<"y", "e", "s">>
        THEN /\ books' = Delete(books, book_id)
             /\ resp' = Reply(req, 302, <<>>)
             /\ UNCHANGED <<genres, authors>>
        ELSE /\ resp' = Reply(req, 302, <<>>)
             /\ UNCHANGED dbVars

\* BookForm validate: the choices of author_id and genre_id are the rows of
\* the two tables, coerce=int; DateField with format %Y-%m-%d
V4_BookForm_validate(form) ==
    LET Choice(k, tbl) == /\ PyInt(Get(form, k, <<>>)).ok
                          /\ ~BindOverflows(PyInt(form[k]))
                          /\ IntVal(PyInt(form[k])) \in Ids(tbl)
    IN  /\ Strip(Get(form, "title", <<>>)) # <<>>
        /\ Len(Get(form, "title", <<>>)) <= 250
        /\ Choice("author_id", authors)
        /\ Choice("genre_id", genres)
        /\ StrptimeIso(Get(form, "publication_date", <<>>)) # None
        /\ Len(Get(form, "description", <<>>)) <= 2000

\* the book a valid BookForm describes
V4_BookForm_book(form) ==
    V4_Book(Strip(form.title), IntVal(PyInt(form.author_id)),
            IntVal(PyInt(form.genre_id)), StrptimeIso(form.publication_date),
            BleachClean(Get(form, "description", <<>>)))

\* book_create
V4_book_create(r) ==
    LET req == Join([op |-> "book_create"], r)
    IN  IF CsrfRejects(r) THEN resp' = CsrfError(req) /\ UNCHANGED dbVars
        ELSE IF r.method = "GET" \/ ~V4_BookForm_validate(r.form)
        THEN /\ resp' = Reply(req, 200, <<>>)
             /\ UNCHANGED dbVars
        ELSE /\ books' = Insert(books, NextId(books), V4_BookForm_book(r.form))
             /\ resp' = Reply(req, 302, <<>>)
             /\ UNCHANGED <<genres, authors>>

\* book_edit
V4_book_edit(r, book_id) ==
    LET req == Join([op |-> "book_edit", id |-> book_id], r)
    IN  IF CsrfRejects(r) THEN resp' = CsrfError(req) /\ UNCHANGED dbVars
        ELSE IF book_id \notin Ids(books)
        THEN /\ resp' = Reply(req, 404, <<>>)            \* get_or_404
             /\ UNCHANGED dbVars
        ELSE IF r.method = "GET" \/ ~V4_BookForm_validate(r.form)
        THEN /\ resp' = Reply(req, 200, <<>>)
             /\ UNCHANGED dbVars
        ELSE /\ books' = [books EXCEPT ![book_id] = V4_BookForm_book(r.form)]
             /\ resp' = Reply(req, 302, <<>>)
             /\ UNCHANGED <<genres, authors>>

(***************************************************************************)
(* Serving requests                                                        *)
(***************************************************************************)
\* the ids of a table that are deleted and not created again
GoneAfter(was, old, new) == (was \cup (Ids(old) \ Ids(new))) \ Ids(new)

\* the books created through the API and not changed since, with the body
\* each was created from
PostedAfter ==
    LET kept == {id \in DOMAIN hist.posted :
                     id \in Ids(books') /\ books'[id] = books[id]}
        isNew == /\ resp'.req.op \in {"api_books", "api_books_collection"}
                 /\ resp'.req.method = "POST"
                 /\ resp'.status = 201
        new == IF isNew THEN {NextId(books)} ELSE {}
    IN  [id \in kept \cup new |->
            IF id \in new THEN resp'.req.payload ELSE hist.posted[id]]

\* one request served by handler action A
Serve(A) ==
    /\ A
    /\ hist' = [gone |-> [genres |-> GoneAfter(hist.gone.genres, genres, genres'),
                          authors |-> GoneAfter(hist.gone.authors, authors, authors'),
                          books |-> GoneAfter(hist.gone.books, books, books')],
                posted |-> PostedAfter]
    /\ nreq' = nreq + 1
    /\ UNCHANGED <<variant, libc, dateIn, dateOut, session, pending, simVars>>

\* the ids a request may name: those present, those deleted, and one never used
SomeIds(tbl, was) == Ids(tbl) \cup was \cup {NextId(tbl)}

ParsersIdle == dateIn = <<>> /\ dateOut = Pending

\* the JSON API is exercised alone: no HTML session, no simulation
OnlyApi == session = NoSessions /\ pending = <<>> /\ SimulationIdle

(***************************************************************************)
(* Listing books: GET /api/v1/books with pagination and date bounds        *)
(***************************************************************************)
PageRequests == 4

TxtT == <<"t">>

TxtA == <<"a">>

TxtG == <<"g">>

\* bodies that create books dated before, on and after the seeded book's day,
\* and one without a date
ListPosts ==
    {[Book_Title |-> TxtT, Book_Author |-> TxtA, Book_Genre |-> TxtG]}
    \cup {[Book_Title |-> TxtT, Book_Author |-> TxtA, Book_Genre |-> TxtG,
           Book_Publication_Date |-> d] :
              d \in {YMD(2019, 12, 31), YMD(2020, 1, 1), YMD(2021, 6, 15)}}

Args(S, k) == {<<>>} \cup {[x \in {k} |-> v] : v \in S}

TxtHuge == Rep("9", 20)

LimitTexts ==
    {<<"0">>, <<"1">>, <<"2">>, <<"-", "1">>, <<"a">>, <<>>, <<" ", "2">>,
     <<"1", ".", "5">>, SqliteMaxInt, SqliteMinMag, TxtHuge}

OffsetTexts ==
    {<<"0">>, <<"1">>, <<"2">>, <<"3">>, <<"-", "1">>, <<"x">>, <<"+", "1">>,
     SqliteMinMag}

BoundTexts ==
    {<<>>, YMD(2019, 12, 31), YMD(2020, 1, 1), YMD(2020, 1, 2), YMD(2021, 6, 15),
     ISO(2020, 1, 1), YMD(2020, 2, 30)}

PageArgs == {Join(a, b) : a \in Args(LimitTexts, "limit"), b \in Args(OffsetTexts, "offset")}

DateArgs ==
    {Join(a, b) : a \in Args(BoundTexts, "after_date"),
                  b \in Args(BoundTexts, "before_date")}

\* pagination, alone and together with a date bound
PageQueries ==
    PageArgs
    \cup {Join(a, b) : a \in {[limit |-> <<"1">>], [offset |-> <<"1">>, limit |-> <<"2">>],
                              [offset |-> <<"1">>], [limit |-> <<"a">>]},
                       b \in {[after_date |-> YMD(2020, 1, 1)],
                              [before_date |-> YMD(2020, 1, 1)],
                              [before_date |-> ISO(2020, 1, 1)]}}

InitPage ==
    /\ variant = "v2"
    /\ V2_create_tables
    /\ resp = NoResponse
    /\ hist = NoHistory
    /\ nreq = 0
    /\ libc = "glibc"
    /\ ParsersIdle
    /\ OnlyApi

NextPage ==
    /\ nreq < PageRequests
    /\ \/ \E payload \in ListPosts : Serve(V2_api_books(POST(TRUE, payload)))
       \/ \E id \in SomeIds(books, hist.gone.books) : Serve(V2_api_book_item(DELETE, id))
       \/ \E args \in PageQueries : Serve(V2_api_books(GET(args)))

SpecPage == InitPage /\ [][NextPage]_vars

(***************************************************************************)
(* C2                                                                      *)
(***************************************************************************)
C2_IsListing == variant = "v2" /\ resp.req.op = "api_books" /\ resp.req.method = "GET"

C2_limit == PyInt(Get(resp.req.args, "limit", <<"1", "0">>))

C2_offset == PyInt(Get(resp.req.args, "offset", <<"0">>))

\* the date bounds of the request are absent or valid
C2_BoundsFine ==
    \A k \in {"after_date", "before_date"} :
        Get(resp.req.args, k, <<>>) # <<>> => V2_parse_yyyymmdd(resp.req.args[k]) # None

\* the ids of the books that match the request's date bounds
C2_Matching ==
    LET bound(k) == IF Get(resp.req.args, k, <<>>) = <<>> THEN None
                    ELSE V2_parse_yyyymmdd(resp.req.args[k])
    IN  {id \in Ids(books) : DateInRange(books[id].Book_Publication_Date, bound("after_date"),
                                bound("before_date"))}

\* position of id among the matching books, counted from 0 in ascending id
C2_Rank(id) == Cardinality({j \in C2_Matching : j < id})

\* the body is exactly the matching books at positions [offset, offset + limit)
\* in ascending Book_ID
C2_IsPage(body, offset, limit) ==
    /\ \A i \in 1..Len(body) :
           /\ body[i].Book_ID \in C2_Matching
           /\ body[i] = V2_Book_to_dict(body[i].Book_ID, books[body[i].Book_ID])
           /\ C2_Rank(body[i].Book_ID) = offset + i - 1
    /\ Len(body) = Max(0, Min(limit, Cardinality(C2_Matching) - offset))

\* C2: variant 2's GET /api/v1/books returns, for offset >= 0 and limit >= 0,
\* exactly the matching books in ascending Book_ID at positions
\* [offset, offset + limit), and answers 400 with no items for a negative or
\* non-integer limit or offset.
C2_Pagination ==
    C2_IsListing /\ C2_BoundsFine =>
        IF C2_limit.ok /\ C2_offset.ok /\ ~C2_limit.neg /\ ~C2_offset.neg
        THEN /\ resp.status = 200
             /\ C2_IsPage(resp.body, IntVal(C2_offset), IntVal(C2_limit))
        ELSE /\ resp.status = 400
             /\ DOMAIN resp.body = {"message"}

\* C2 for limits and offsets SQLite can bind (at most 2^63 - 1)
C2_PaginationWithin64Bits ==
    C2_IsListing /\ C2_BoundsFine
    /\ (C2_limit.ok => ~BindOverflows(C2_limit))
    /\ (C2_offset.ok => ~BindOverflows(C2_offset)) =>
        IF C2_limit.ok /\ C2_offset.ok /\ ~C2_limit.neg /\ ~C2_offset.neg
        THEN /\ resp.status = 200
             /\ C2_IsPage(resp.body, IntVal(C2_offset), IntVal(C2_limit))
        ELSE /\ resp.status = 400
             /\ DOMAIN resp.body = {"message"}

\* a page that starts inside the matching books and ends before their last
C2_PageServed ==
    /\ C2_IsListing /\ resp.status = 200
    /\ IntVal(C2_offset) = 1 /\ Len(resp.body) = 2
    /\ Cardinality(C2_Matching) = 4

(***************************************************************************)
(* C1                                                                      *)
(***************************************************************************)
\* what the claim calls a valid text: exactly 8 decimal digits YYYYMMDD that
\* name a real calendar date (years 0001..9999, the range of datetime.date)
C1_IsDateText(s) ==
    /\ Len(s) = 8
    /\ AllDigits(s)
    /\ DigitsToInt(SubSeq(s, 1, 4)) \in 1..9999
    /\ DigitsToInt(SubSeq(s, 5, 6)) \in 1..12
    /\ DigitsToInt(SubSeq(s, 7, 8)) \in
           1..DaysInMonth(DigitsToInt(SubSeq(s, 1, 4)), DigitsToInt(SubSeq(s, 5, 6)))

C1_Expected(s) ==
    IF C1_IsDateText(s)
    THEN <<DigitsToInt(SubSeq(s, 1, 4)), DigitsToInt(SubSeq(s, 5, 6)),
           DigitsToInt(SubSeq(s, 7, 8))>>
    ELSE None

\* C1: parse_yyyymmdd (variant 2) and parse_api_date (original) return the
\* date for every text of exactly 8 digits naming a real calendar date and
\* None for every other text.
C1_ParsersExact ==
    dateOut # Pending /\ dateOut.parser \in {"v2", "orig"}
        => dateOut.result = C1_Expected(dateIn)

\* C1, restricted to the original variant's parse_api_date
C1_OrigExact ==
    dateOut # Pending /\ dateOut.parser = "orig"
        => dateOut.result = C1_Expected(dateIn)

\* C1, variant 2 apart from one trailing newline after the eight digits
C1_V2ExactButNewline ==
    dateOut # Pending /\ dateOut.parser = "v2"
        => dateOut.result =
               IF Len(dateIn) = 9 /\ dateIn[9] = "\n"
               THEN C1_Expected(SubSeq(dateIn, 1, 8))
               ELSE C1_Expected(dateIn)

(***************************************************************************)
(* Variant 2: creating, reading, updating and deleting single books        *)
(***************************************************************************)
BookRequests == 3

TxtLong == Rep("a", 301)

V2_NewBook(title, author, genre) ==
    [Book_Title |-> title, Book_Author |-> author, Book_Genre |-> genre]

\* bodies of POST /api/v1/books: plain, padded with blanks, over-long, with
\* dates in both formats, and with missing or empty required fields
BookPosts ==
    {V2_NewBook(TxtT, TxtA, TxtG),
     Join(V2_NewBook(<<" ", "b">>, <<"a", " ">>, <<" ", "g", " ">>),
          [Book_Publication_Date |-> YMD(2019, 12, 31)]),
     Join(V2_NewBook(<<" ">>, TxtA, TxtG), [Book_Publication_Date |-> YMD(2020, 1, 1)]),
     Join(V2_NewBook(TxtLong, TxtA, TxtG), [Book_Publication_Date |-> YMD(2020, 2, 29)]),
     V2_NewBook(<<>>, TxtA, TxtG),
     [Book_Title |-> TxtT, Book_Genre |-> TxtG],
     Join(V2_NewBook(TxtLong, TxtA, TxtG),
          [Book_Publication |-> <<"p">>, Book_Description |-> <<"d">>,
           Book_Publication_Date |-> ISO(2021, 6, 15)])}
    \cup {Join(V2_NewBook(TxtT, TxtA, TxtG), [Book_Publication_Date |-> d]) :
              d \in {YMD(2020, 1, 1), YMD(999, 1, 1), YMD(2020, 2, 30),
                     YMD(2020, 1, 1) \o <<"\n">>}}

\* bodies of PUT /api/v1/books/<id>: each key alone, none, all, and bodies
\* with an empty required field or an invalid date next to valid keys
BookPuts ==
    {<<>>,
     [Book_Title |-> <<"c">>],
     [Book_Author |-> <<"y">>],
     [Book_Genre |-> <<"h">>],
     [Book_Publication |-> <<"q">>],
     [Book_Description |-> <<"e">>],
     [Book_Publication_Date |-> YMD(2022, 12, 31)],
     [Book_Publication_Date |-> <<>>],
     [Book_Title |-> <<>>, Book_Author |-> <<"y">>],
     [Book_Publication |-> <<"q">>, Book_Publication_Date |-> YMD(2020, 2, 30)],
     [Book_Title |-> TxtLong, Book_Publication |-> <<>>],
     [Book_Title |-> <<"c">>, Book_Author |-> <<"y">>, Book_Genre |-> <<"h">>,
      Book_Publication |-> <<"q">>, Book_Description |-> <<"e">>,
      Book_Publication_Date |-> ISO(2022, 12, 31)]}

InitBooks ==
    /\ variant = "v2"
    /\ V2_create_tables
    /\ resp = NoResponse
    /\ hist = NoHistory
    /\ nreq = 0
    /\ libc \in {"glibc", "padded"}
    /\ ParsersIdle
    /\ OnlyApi

NextBooks ==
    /\ nreq < BookRequests
    /\ \/ \E payload \in BookPosts : Serve(V2_api_books(POST(TRUE, payload)))
       \/ Serve(V2_api_books(POST(FALSE, <<>>)))
       \/ \E id \in SomeIds(books, hist.gone.books) :
              \/ Serve(V2_api_book_item(GET(<<>>), id))
              \/ \E payload \in BookPuts : Serve(V2_api_book_item(PUT(TRUE, payload), id))
              \/ Serve(V2_api_book_item(PUT(FALSE, <<>>), id))
              \/ Serve(V2_api_book_item(DELETE, id))

SpecBooks == InitBooks /\ [][NextBooks]_vars

(***************************************************************************)
(* Listing books between dates, in variants 2, 3 and the original          *)
(***************************************************************************)
RangeRequests == 3

\* bodies that create the same books in the original variant
OrigListPosts ==
    {[title |-> TxtT, author_id |-> 1, genre_id |-> 2, publication_date |-> d] :
         d \in {YMD(2019, 12, 31), YMD(2020, 1, 1), ISO(2021, 6, 15)}}

RangeQueries ==
    DateArgs
    \cup {Join(a, b) : a \in {[limit |-> <<"1">>], [offset |-> <<"1">>]},
                       b \in {[after_date |-> YMD(2020, 1, 1)],
                              [before_date |-> YMD(2020, 1, 1)]}}

InitRange ==
    /\ variant \in {"v2", "v3", "orig"}
    /\ CASE variant = "v2" -> V2_create_tables
         [] variant = "v3" -> V3_init_db
         [] variant = "orig" -> Orig_initdb
    /\ resp = NoResponse
    /\ hist = NoHistory
    /\ nreq = 0
    /\ libc = "glibc"
    /\ ParsersIdle
    /\ OnlyApi

NextRange ==
    /\ nreq < RangeRequests
    /\ \/ /\ variant = "v2"
          /\ \/ \E payload \in ListPosts : Serve(V2_api_books(POST(TRUE, payload)))
             \/ \E args \in RangeQueries : Serve(V2_api_books(GET(args)))
       \/ /\ variant = "v3"
          /\ \/ \E payload \in ListPosts :
                    Serve(V3_api_books_collection(WithToken(POST(TRUE, payload))))
             \/ Serve(V3_api_books_collection(POST(TRUE, V2_NewBook(TxtT, TxtA, TxtG))))
             \/ \E args \in RangeQueries : Serve(V3_api_books_collection(GET(args)))
       \/ /\ variant = "orig"
          /\ \/ \E payload \in OrigListPosts : Serve(Orig_api_books(POST(TRUE, payload)))
             \/ \E args \in RangeQueries : Serve(Orig_api_books(GET(args)))

SpecRange == InitRange /\ [][NextRange]_vars

(***************************************************************************)
(* C4                                                                      *)
(***************************************************************************)
C4_IsListing ==
    /\ variant \in {"v2", "v3", "orig"}
    /\ resp.req.op \in {"api_books", "api_books_collection"}
    /\ resp.req.method = "GET"

C4_Given(k) == Get(resp.req.args, k, <<>>) # <<>>

\* at least one bound is given and every bound given is a valid date text
C4_ValidBounds ==
    /\ C4_Given("after_date") \/ C4_Given("before_date")
    /\ \A k \in {"after_date", "before_date"} :
           C4_Given(k) => C1_IsDateText(resp.req.args[k])

C4_PubDate(id) ==
    IF variant = "orig" THEN books[id].pub_date ELSE books[id].Book_Publication_Date

\* the book has a publication date d with A <= d and d <= B for the bounds given
C4_InRange(id) ==
    /\ C4_PubDate(id) # None
    /\ C4_Given("after_date") =>
           DateLE(C1_Expected(resp.req.args["after_date"]), C4_PubDate(id))
    /\ C4_Given("before_date") =>
           DateLE(C4_PubDate(id), C1_Expected(resp.req.args["before_date"]))

\* the ids of the books in the response
C4_Returned ==
    LET items == IF variant = "v3" THEN resp.body.items ELSE resp.body
    IN  {IF variant = "orig" THEN items[i].id ELSE items[i].Book_ID :
             i \in 1..Len(items)}

\* C4: in the API book list of variants 2, 3 and the original, a request with
\* valid after_date and/or before_date returns only books whose publication
\* date lies within the bounds, both inclusive, never a book without a date,
\* and, when the request does not paginate, every book within the bounds.
C4_DateFilter ==
    C4_IsListing /\ C4_ValidBounds =>
        /\ resp.status = 200 => \A id \in C4_Returned : id \in Ids(books) /\ C4_InRange(id)
        /\ DOMAIN resp.req.args \cap {"limit", "offset"} = {} =>
               /\ resp.status = 200
               /\ C4_Returned = {id \in Ids(books) : C4_InRange(id)}

\* a listing between two bounds returned a book dated on a bound's own day
\* and left out a dated book outside the bounds
C4_BoundDayReturned ==
    /\ C4_IsListing /\ C4_ValidBounds /\ resp.status = 200
    /\ C4_Given("after_date") /\ C4_Given("before_date")
    /\ \E id \in C4_Returned :
           C4_PubDate(id) = C1_Expected(resp.req.args["after_date"])
    /\ \E id \in Ids(books) \ C4_Returned : C4_PubDate(id) # None

\* a listing with a bound left out a book that has no publication date
C4_UndatedLeftOut ==
    /\ C4_IsListing /\ C4_ValidBounds /\ resp.status = 200
    /\ C4_Returned # {}
    /\ \E id \in Ids(books) \ C4_Returned : C4_PubDate(id) = None

(***************************************************************************)
(* C3                                                                      *)
(***************************************************************************)
\* the last request read a book that was created by a POST with non-empty
\* title, author and genre and a valid 8-digit date, and not changed since
C3_ReadBack ==
    /\ variant = "v2"
    /\ resp.req.op = "api_book_item" /\ resp.req.method = "GET"
    /\ resp.req.id \in DOMAIN hist.posted
    /\ LET p == hist.posted[resp.req.id]
       IN  /\ "Book_Publication_Date" \in DOMAIN p
           /\ C1_IsDateText(p.Book_Publication_Date)

C3_posted == hist.posted[resp.req.id]

\* C3: in variant 2 a book created by POST /api/v1/books with non-empty
\* title, author and genre and a valid 8-digit date is read back by GET with
\* the same title, author and genre and the date as YYYY-MM-DD of that day.
C3_RoundTrip ==
    C3_ReadBack =>
        /\ resp.status = 200
        /\ resp.body.Book_Title = C3_posted.Book_Title
        /\ resp.body.Book_Author = C3_posted.Book_Author
        /\ resp.body.Book_Genre = C3_posted.Book_Genre
        /\ resp.body.Book_Publication_Date =
               LET d == C1_Expected(C3_posted.Book_Publication_Date)
               IN  ISO(d[1], d[2], d[3])

\* C3 as the code has it: the texts come back stripped of surrounding
\* whitespace and cut to the column width, and the year is zero-filled to
\* four digits from year 1000 on (before that, only where the C library does)
C3_RoundTripNormalised ==
    C3_ReadBack =>
        /\ resp.status = 200
        /\ resp.body.Book_Title = Take(Strip(C3_posted.Book_Title), 300)
        /\ resp.body.Book_Author = Take(Strip(C3_posted.Book_Author), 120)
        /\ resp.body.Book_Genre = Take(Strip(C3_posted.Book_Genre), 120)
        /\ LET d == C1_Expected(C3_posted.Book_Publication_Date)
           IN  d[1] >= 1000 \/ libc = "padded" =>
                   resp.body.Book_Publication_Date = ISO(d[1], d[2], d[3])

\* C3 for a plain body: texts without surrounding blanks within the column
\* widths, a year of four significant digits
C3_RoundTripPlain ==
    C3_ReadBack
    /\ C3_posted.Book_Title = TxtT
    /\ C3_posted.Book_Publication_Date = YMD(2020, 1, 1) =>
        /\ resp.status = 200
        /\ resp.body.Book_Title = TxtT
        /\ resp.body.Book_Author = TxtA
        /\ resp.body.Book_Genre = TxtG
        /\ resp.body.Book_Publication_Date = ISO(2020, 1, 1)

(***************************************************************************)
(* C10                                                                     *)
(***************************************************************************)
\* the step serves a PUT /api/v1/books/<id> of variant 2 that answers 200
C10_PutDone ==
    /\ variant = "v2" /\ nreq' = nreq + 1
    /\ resp'.req.op = "api_book_item" /\ resp'.req.method = "PUT"
    /\ resp'.status = 200

\* C10: a successful PUT /api/v1/books/<id> of variant 2 leaves every field
\* whose key is absent from the body as it was, leaves every other book (and
\* the set of books) unchanged, and answers 200 with the book as stored.
C10_PutFrame ==
    [][C10_PutDone =>
          LET id == resp'.req.id
          IN  /\ Ids(books') = Ids(books)
              /\ \A k \in BookColumns \ DOMAIN resp'.req.payload :
                     books'[id][k] = books[id][k]
              /\ \A j \in Ids(books) \ {id} : books'[j] = books[j]
              /\ resp'.body = V2_Book_to_dict(id, books'[id])]_vars

\* a PUT with the title alone has changed the title of a book created with a
\* publisher, a date and a description, next to another book
C10_PartialPut ==
    /\ variant = "v2"
    /\ resp.req.op = "api_book_item" /\ resp.req.method = "PUT"
    /\ resp.status = 200
    /\ DOMAIN resp.req.payload = {"Book_Title"}
    /\ Cardinality(Ids(books)) >= 2
    /\ books[resp.req.id].Book_Title = <<"c">>
    /\ books[resp.req.id].Book_Description # <<>>
    /\ books[resp.req.id].Book_Publication_Date # None

(***************************************************************************)
(* Items of the API in the five variants: create, read, update, delete     *)
(***************************************************************************)
GoneRequests == 3

\* the variants whose application object is wrapped in CSRFProtect
CsrfVariants == {"v3", "r3", "v4"}

\* the request with a token, or as it is
Token(tok, r) == IF tok THEN WithToken(r) ELSE r

\* a body that creates or updates a genre / an author
NamedBody(kind) ==
    IF variant \in {"v4", "orig"} THEN Orig_Named(kind, <<"n">>, <<"x">>)
    ELSE V2_Named(kind, <<"n">>, <<"x">>)

\* a body that creates a book, and one that gives a book another title
BookBody ==
    CASE variant = "orig" ->
             [title |-> TxtT, author_id |-> 1, genre_id |-> 1,
              publication_date |-> YMD(2020, 1, 1)]
      [] variant = "v4" ->
             [title |-> TxtT, author_id |-> FromNat(1), genre_id |-> FromNat(1),
              publication_date |-> YMD(2020, 1, 1)]
      [] OTHER -> V2_NewBook(TxtT, TxtA, TxtG)

TitleBody ==
    IF variant \in {"v4", "orig"} THEN [title |-> <<"u">>] ELSE [Book_Title |-> <<"u">>]

\* the view function of the variant for /books, for /books/<id>, for
\* /genres and /authors, and for their items. The bodies of this section
\* carry a date of eight digits or none, so dateutil is not called
ApiBooks(r) ==
    CASE variant = "v2" -> V2_api_books(r)
      [] variant = "v3" -> V3_api_books_collection(r)
      [] variant = "r3" -> R3_api_books(r, None, None)
      [] variant = "v4" -> V4_api_books(r, None, None)
      [] variant = "orig" -> Orig_api_books(r)

ApiBookItem(r, id) ==
    CASE variant = "v2" -> V2_api_book_item(r, id)
      [] variant = "v3" -> V3_api_book_item(r, id)
      [] variant = "r3" -> R3_api_book_detail(r, id, None)
      [] variant = "v4" -> V4_api_book_item(r, id, None)
      [] variant = "orig" -> Orig_api_book(r, id)

ApiNames(kind, r) ==
    CASE variant = "v2" -> V2_api_names(kind, r)
      [] variant = "v3" -> V3_api_names_collection(kind, r)
      [] variant = "r3" -> R3_api_names(kind, r)
      [] variant = "v4" -> V4_api_names(kind, r)
      [] variant = "orig" -> Orig_api_names(kind, r)

ApiNameItem(kind, r, id) ==
    CASE variant = "v2" -> V2_api_name_item(kind, r, id)
      [] variant = "v3" -> V3_api_name_item(kind, r, id)
      [] variant = "r3" -> R3_api_name_detail(kind, r, id)
      [] variant = "v4" -> V4_api_name_item(kind, r, id)
      [] variant = "orig" -> Orig_api_name(kind, r, id)

InitGone ==
    /\ variant \in {"v2", "v3", "r3", "v4", "orig"}
    /\ CASE variant = "v2" -> V2_create_tables
         [] variant = "v3" -> V3_init_db
         [] variant = "r3" -> R3_seed_if_empty
         [] variant = "v4" -> V4_init_db
         [] variant = "orig" -> Orig_initdb
    /\ resp = NoResponse
    /\ hist = NoHistory
    /\ nreq = 0
    /\ libc = "glibc"
    /\ ParsersIdle
    /\ OnlyApi

NextGone ==
    /\ nreq < GoneRequests
    /\ \E tok \in BOOLEAN :
          \/ Serve(ApiBooks(Token(tok, POST(TRUE, BookBody))))
          \/ \E id \in SomeIds(books, hist.gone.books) :
                 \/ Serve(ApiBookItem(GET(<<>>), id))
                 \/ Serve(ApiBookItem(Token(tok, PUT(TRUE, TitleBody)), id))
                 \/ Serve(ApiBookItem(Token(tok, DELETE), id))
          \/ \E kind \in Kinds :
                 \/ Serve(ApiNames(kind, Token(tok, POST(TRUE, NamedBody(kind)))))
                 \/ \E id \in SomeIds(Table(kind), hist.gone[kind]) :
                        \/ Serve(ApiNameItem(kind, GET(<<>>), id))
                        \/ Serve(ApiNameItem(kind, Token(tok, PUT(TRUE, NamedBody(kind))), id))
                        \/ Serve(ApiNameItem(kind, Token(tok, DELETE), id))

SpecGone == InitGone /\ [][NextGone]_vars

(***************************************************************************)
(* C5                                                                      *)
(***************************************************************************)
\* the table an item request is about
C5_TableOf(op) ==
    CASE op \in {"api_book_item", "api_book_detail", "api_book"} -> "books"
      [] op \in {"api_genre_item", "api_genre_detail", "api_genre"} -> "genres"
      [] op \in {"api_author_item", "api_author_detail", "api_author"} -> "authors"
      [] OTHER -> "none"

\* the step serves GET, PUT or DELETE of an item whose id was deleted and
\* not created again, and the request reaches the view function (it carries
\* the CSRF token where the variant demands one)
C5_ItemOfDeleted ==
    /\ nreq' = nreq + 1
    /\ C5_TableOf(resp'.req.op) # "none"
    /\ resp'.req.id \in hist.gone[C5_TableOf(resp'.req.op)]
    /\ ~(variant \in CsrfVariants /\ CsrfRejects(resp'.req))

NameRequests == 3

\* names of request bodies: one of a seeded genre, one of a seeded author,
\* a new one with and without a leading blank, and one of 121 characters
NameTexts == {TxtFiction, TxtJaneDoe, <<"x">>, <<" ", "x">>, Rep("b", 121)}

\* bodies of PUT: a name alone, or a text alone
NamePuts(kind) ==
    {[k \in {NameCol(kind)} |-> name] : name \in NameTexts}
    \cup {[k \in {TextCol(kind)} |-> <<"d">>]}

InitNames ==
    /\ variant = "v2"
    /\ V2_create_tables
    /\ resp = NoResponse
    /\ hist = NoHistory
    /\ nreq = 0
    /\ libc = "glibc"
    /\ ParsersIdle
    /\ OnlyApi

NextNames ==
    /\ nreq < NameRequests
    /\ \E kind \in Kinds :
          \/ \E name \in NameTexts :
                 Serve(V2_api_names(kind, POST(TRUE, V2_Named(kind, name, <<"d">>))))
          \/ Serve(V2_api_names(kind, POST(FALSE, <<>>)))
          \/ Serve(V2_api_names(kind, GET(<<>>)))
          \/ \E id \in SomeIds(Table(kind), hist.gone[kind]) :
                 \/ \E payload \in NamePuts(kind) :
                        Serve(V2_api_name_item(kind, PUT(TRUE, payload), id))
                 \/ Serve(V2_api_name_item(kind, GET(<<>>), id))
                 \/ Serve(V2_api_name_item(kind, DELETE, id))

SpecNames == InitNames /\ [][NextNames]_vars

(***************************************************************************)
(* C6                                                                      *)
(***************************************************************************)
\* the kind a request of variant 2 is about
C6_Kind(op) == IF op \in {"api_genres", "api_genre_item"} THEN "genres" ELSE "authors"

\* the step serves a JSON POST to /api/v1/genres or /api/v1/authors, or a
\* JSON PUT to an existing item, that names the row; Same(old, new) says
\* when the name of the body counts as the name old of a row
C6_Names(Same(_, _)) ==
    LET r == resp'.req
        kind == C6_Kind(r.op)
        col == NameCol(kind)
        tbl == Table(kind)
    IN  /\ variant = "v2" /\ nreq' = nreq + 1
        /\ r.op \in {"api_genres", "api_authors", "api_genre_item", "api_author_item"}
        /\ r.method \in {"POST", "PUT"}
        /\ r.is_json /\ col \in DOMAIN r.payload
        /\ IF r.method = "POST"
           THEN \E j \in Ids(tbl) : Same(tbl[j][col], r.payload[col])
           ELSE /\ r.id \in Ids(tbl)
                /\ \E j \in Ids(tbl) \ {r.id} : Same(tbl[j][col], r.payload[col])

\* C6: in variant 2, a POST to /api/v1/genres or /api/v1/authors whose name
\* equals the name of an existing row is answered 409, creates no row and
\* changes no genre and no author; a PUT that renames a row to the name of
\* another row is answered 409 as well and changes nothing.
C6_DuplicateRejected ==
    [][C6_Names(LAMBDA old, new : old = new)
           => resp'.status = 409 /\ UNCHANGED dbVars]_vars

\* the same for a name that equals the row's name once it is stripped (POST)
\* and cut to 120 characters, as the handlers store it
C6_StoredDuplicateRejected ==
    [][C6_Names(LAMBDA old, new :
                    old = Take(IF resp'.req.method = "POST" THEN Strip(new) ELSE new, 120))
           => resp'.status = 409 /\ UNCHANGED dbVars]_vars

\* a POST with the name of a row has been answered 201: the row got its
\* name, with a leading blank, from a PUT
C6_DuplicateCreated ==
    /\ variant = "v2"
    /\ resp.req.op \in {"api_genres", "api_authors"}
    /\ resp.req.method = "POST"
    /\ resp.status = 201
    /\ \E j \in Ids(Table(C6_Kind(resp.req.op))) :
           Table(C6_Kind(resp.req.op))[j][NameCol(C6_Kind(resp.req.op))]
               = resp.req.payload[NameCol(C6_Kind(resp.req.op))]

\* a PUT and a POST with the name of another row have been answered 409
C6_Conflict ==
    /\ variant = "v2"
    /\ resp.req.op \in {"api_genre_item", "api_author_item"}
    /\ resp.req.method = "PUT"
    /\ resp.status = 409

(***************************************************************************)
(* Variant 4: the HTML forms and the API on one database                   *)
(***************************************************************************)
V4Requests == 3

TxtYes == <<"y", "e", "s">>

\* the name of a row that "flask init-db" stores, and a new one
V4_Names(kind) ==
    {IF kind = "genres" THEN TxtFiction
     ELSE <<"J", "a", "n", "e", " ", "A", "u", "s", "t", "e", "n">>,
     <<"x">>}

\* ids of JSON bodies: of a seeded row, of no row, and 2^63
V4_JsonIds == {FromNat(2), FromNat(9), PyInt(SqliteMinMag)}

\* bodies of POST /api/v/books and of PUT /api/v/books/<id>
V4_BookPosts ==
    {[title |-> TxtT, author_id |-> a, genre_id |-> g,
      publication_date |-> YMD(2020, 1, 1)] :
         a \in V4_JsonIds, g \in {FromNat(1), FromNat(9)}}

V4_BookPuts ==
    {[author_id |-> a] : a \in V4_JsonIds}
    \cup {[genre_id |-> g] : g \in V4_JsonIds}
    \cup {[title |-> <<"u">>, description |-> <<"a", "&", "b">>]}

\* the fields of the book form, with an author that is or is not a choice
V4_BookForms ==
    {[title |-> TxtT, author_id |-> a, genre_id |-> <<"1">>,
      publication_date |-> ISO(2020, 1, 1)] : a \in {<<"2">>, <<"9">>}}

\* a date bound that strptime does not take, so that dateutil is asked
TxtJan2020 == <<"J", "a", "n", " ", "2", "0", "2", "0">>

InitV4 ==
    /\ variant = "v4"
    /\ V4_init_db
    /\ resp = NoResponse
    /\ hist = NoHistory
    /\ nreq = 0
    /\ libc = "glibc"
    /\ ParsersIdle
    /\ OnlyApi

NextV4 ==
    /\ nreq < V4Requests
    /\ \/ \E kind \in Kinds :
             \/ \E name \in V4_Names(kind) :
                    \/ Serve(V4_named_create(kind,
                           WithToken(SUBMIT(Orig_Named(kind, name, <<"d">>)))))
                    \/ Serve(V4_api_names(kind,
                           WithToken(POST(TRUE, Orig_Named(kind, name, <<"d">>)))))
                    \/ \E id \in SomeIds(Table(kind), hist.gone[kind]) :
                           \/ Serve(V4_named_edit(kind,
                                  WithToken(SUBMIT(Orig_Named(kind, name, <<"d">>))), id))
                           \/ Serve(V4_api_name_item(kind,
                                  WithToken(PUT(TRUE, [name |-> name])), id))
             \/ Serve(V4_api_names(kind, POST(TRUE, Orig_Named(kind, <<"x">>, <<"d">>))))
             \/ Serve(V4_api_names(kind, GET(<<>>)))
             \/ \E id \in SomeIds(Table(kind), hist.gone[kind]) :
                    \/ \E confirm \in {TxtYes, <<"n", "o">>} :
                           Serve(V4_named_delete(kind,
                               WithToken(SUBMIT([confirm |-> confirm])), id))
                    \/ Serve(V4_api_name_item(kind, WithToken(DELETE), id))
       \/ \E payload \in V4_BookPosts :
              Serve(V4_api_books(WithToken(POST(TRUE, payload)), None, None))
       \/ \E du \in DateutilAnswers(TxtJan2020) :
              Serve(V4_api_books(GET([after_date |-> TxtJan2020]), du, None))
       \/ \E form \in V4_BookForms : Serve(V4_book_create(WithToken(SUBMIT(form))))
       \/ \E id \in SomeIds(books, hist.gone.books) :
              \/ \E payload \in V4_BookPuts :
                     Serve(V4_api_book_item(WithToken(PUT(TRUE, payload)), id, None))
              \/ Serve(V4_api_book_item(WithToken(DELETE), id, None))
              \/ Serve(V4_api_book_item(GET(<<>>), id, None))
              \/ \E form \in V4_BookForms :
                     Serve(V4_book_edit(WithToken(SUBMIT(form)), id))
              \/ Serve(V4_book_delete(WithToken(SUBMIT([confirm |-> TxtYes])), id))

SpecV4 == InitV4 /\ [][NextV4]_vars

(***************************************************************************)
(* C7                                                                      *)
(***************************************************************************)
\* no two rows of the table have the same name
C7_Unique(tbl) ==
    \A i \in Ids(tbl) : \A j \in Ids(tbl) : i # j => tbl[i].name # tbl[j].name

\* C7: in variant 4, after any sequence of HTML and API create, update and
\* delete operations, no two genres have the same name and no two authors
\* have the same name.
C7_NamesUnique == variant = "v4" => C7_Unique(genres) /\ C7_Unique(authors)

\* the half of it that the unique index of Genre.name carries
C7_GenreNamesUnique == variant = "v4" => C7_Unique(genres)

\* a create with the name of a genre has been refused
C7_GenreRefused ==
    /\ variant = "v4"
    /\ resp.req.op = "api_genres" /\ resp.req.method = "POST"
    /\ resp.status = 400
    /\ \E j \in Ids(genres) : genres[j].name = resp.req.payload.name

(***************************************************************************)
(* C9                                                                      *)
(***************************************************************************)
\* every book refers to an author and to a genre that exist
C9_BooksRefer ==
    \A b \in Ids(books) :
        books[b].author_id \in Ids(authors) /\ books[b].genre_id \in Ids(genres)

\* the step serves a request that deletes a genre or an author
C9_NamedDeleted(kind) ==
    /\ \/ resp'.req.op = ViewName(kind, "genre_delete", "author_delete")
          /\ resp'.status = 302
          /\ Get(resp'.req.form, "confirm", None) = TxtYes
       \/ resp'.req.op = ViewName(kind, "api_genre_item", "api_author_item")
          /\ resp'.req.method = "DELETE"
          /\ resp'.status = 204

\* the step serves a JSON create of a book, or a JSON update of a book that
\* exists, whose author_id or genre_id is an integer in Ok that is the id of
\* no row
C9_UnknownRef(Ok(_)) ==
    LET r == resp'.req
        Unknown(k, tbl) == /\ k \in DOMAIN r.payload
                           /\ Ok(r.payload[k])
                           /\ IntVal(r.payload[k]) \notin Ids(tbl)
    IN  /\ \/ r.op = "api_books" /\ r.method = "POST"
           \/ r.op = "api_book_item" /\ r.method = "PUT" /\ r.id \in Ids(books)
        /\ ~CsrfRejects(r)
        /\ r.is_json
        /\ Unknown("author_id", authors) \/ Unknown("genre_id", genres)

\* C9: in variant 4, deleting a genre or an author through the HTML confirm
\* form or the API DELETE deletes every book that refers to it, in every
\* reachable state each book refers to an author and a genre that exist, and
\* a create or update of a book whose author_id or genre_id names no existing
\* row is rejected with 400.
C9_Referential ==
    [][variant = "v4" /\ nreq' = nreq + 1 =>
          /\ \A kind \in Kinds :
                 C9_NamedDeleted(kind) =>
                     \A b \in Ids(books') :
                         books'[b][IF kind = "genres" THEN "genre_id" ELSE "author_id"]
                             # resp'.req.id
          /\ C9_BooksRefer'
          /\ C9_UnknownRef(LAMBDA n : TRUE) =>
                 resp'.status = 400 /\ UNCHANGED dbVars]_vars

\* the cascade alone: the books of a deleted genre or author are deleted
C9_DeleteCascades ==
    [][variant = "v4" /\ nreq' = nreq + 1 =>
          \A kind \in Kinds :
              C9_NamedDeleted(kind) =>
                  \A b \in Ids(books') :
                      books'[b][IF kind = "genres" THEN "genre_id" ELSE "author_id"]
                          # resp'.req.id]_vars

\* the references of the books, as a property of the states
C9_BooksReferToRows == variant = "v4" => C9_BooksRefer

\* the rejection with 400, for bodies whose ids SQLite can bind
C9_UnknownRejectedWithin64Bits ==
    [][(variant = "v4" /\ nreq' = nreq + 1
        /\ C9_UnknownRef(LAMBDA n : TRUE)
        /\ (\A k \in {"author_id", "genre_id"} \cap DOMAIN resp'.req.payload :
                ~BindOverflows(resp'.req.payload[k])))
           => resp'.status = 400 /\ UNCHANGED dbVars]_vars

\* deleting an author has deleted the author's book with it
C9_BookWentWithAuthor ==
    /\ variant = "v4"
    /\ resp.req.op \in {"author_delete", "api_author_item"}
    /\ resp.status \in {302, 204}
    /\ resp.req.id \in hist.gone.authors
    /\ hist.gone.books # {}

(***************************************************************************)
(* The original variant: the API and the HTML delete forms                 *)
(***************************************************************************)
OrigRequests == 3

\* bodies of POST /api/v/books and PUT /api/v/books/<id>
OrigBookPosts ==
    {[title |-> TxtT, author_id |-> a, genre_id |-> 1,
      publication_date |-> YMD(2020, 1, 1)] : a \in {2, 9}}

InitOrig ==
    /\ variant = "orig"
    /\ Orig_initdb \/ Orig_create_all
    /\ resp = NoResponse
    /\ hist = NoHistory
    /\ nreq = 0
    /\ libc = "glibc"
    /\ ParsersIdle
    /\ OnlyApi

NextOrig ==
    /\ nreq < OrigRequests
    /\ \/ \E kind \in Kinds :
             \/ \E name \in {<<"x">>, <<"y">>} :
                    \/ Serve(Orig_api_names(kind, POST(TRUE, Orig_Named(kind, name, <<"d">>))))
                    \/ \E id \in SomeIds(Table(kind), hist.gone[kind]) :
                           Serve(Orig_api_name(kind, PUT(TRUE, [name |-> name]), id))
             \/ \E id \in SomeIds(Table(kind), hist.gone[kind]) :
                    \/ Serve(Orig_api_name(kind, DELETE, id))
                    \/ Serve(Orig_api_name(kind, GET(<<>>), id))
                    \/ Serve(Orig_delete_named(kind, id))
       \/ \E payload \in OrigBookPosts : Serve(Orig_api_books(POST(TRUE, payload)))
       \/ Serve(Orig_api_books(GET(<<>>)))
       \/ \E id \in SomeIds(books, hist.gone.books) :
              \/ \E a \in {2, 9} : Serve(Orig_api_book(PUT(TRUE, [author_id |-> a]), id))
              \/ Serve(Orig_api_book(DELETE, id))
              \/ Serve(Orig_api_book(GET(<<>>), id))
              \/ Serve(Orig_delete_book(id))

SpecOrig == InitOrig /\ [][NextOrig]_vars

(***************************************************************************)
(* C8                                                                      *)
(***************************************************************************)
\* C8: in the original variant, in every reachable state each book's
\* author_id and genre_id are the ids of an Author row and a Genre row that
\* exist, also after an author or genre that books refer to was deleted.
C8_BooksReferToRows ==
    variant = "orig" =>
        \A b \in Ids(books) :
            books[b].author_id \in Ids(authors) /\ books[b].genre_id \in Ids(genres)

\* what does hold: the ids that a create or an update of a book through the
\* API stores are ids of rows that exist at that moment
C8_StoredRefsExist ==
    [][variant = "orig" /\ nreq' = nreq + 1
       /\ resp'.req.op \in {"api_books", "api_book"}
       /\ resp'.req.method \in {"POST", "PUT"}
       /\ resp'.status \in {200, 201}
           => LET id == IF resp'.req.method = "POST" THEN NextId(books) ELSE resp'.req.id
                  Given(k) == k \in DOMAIN resp'.req.payload
              IN  /\ Given("author_id") => books'[id].author_id \in Ids(authors)
                  /\ Given("genre_id") => books'[id].genre_id \in Ids(genres)]_vars

\* an author was deleted and a book still carries the author's id
C8_Dangling ==
    /\ variant = "orig"
    /\ \E b \in Ids(books) : books[b].author_id \in hist.gone.authors

(***************************************************************************)
(* Variant 3: the list endpoints of the API                                *)
(***************************************************************************)
V3PageRequests == 2

MAX_PAGE_SIZE == 100

\* the body of the i-th of a run of POSTs to /api/v/books
V3_NumberedPost(i) ==
    [Book_Title |-> <<"b">> \o IntToDigits(i), Book_Author |-> TxtA, Book_Genre |-> TxtG]

\* the rows of books after init_db and n such POSTs, as api_books_collection
\* stores them
V3_NumberedBooks(n) ==
    [i \in 1..n |-> V2_Book(V3_NumberedPost(i).Book_Title, TxtA, TxtG, None, None, None)]

V3LimitTexts == {<<"-", "1">>, <<"0">>, <<"1", "0", "1">>, <<"a">>}

V3OffsetTexts == {<<"-", "1">>, <<"1">>, SqliteMinMag}

V3PageArgs ==
    {Join(a, b) : a \in Args(V3LimitTexts, "limit"), b \in Args(V3OffsetTexts, "offset")}

\* the database of init_db, and the same with one row more than a full page
\* in books
InitV3Page ==
    /\ variant = "v3"
    /\ genres = V3_sample_genres
    /\ authors = V3_sample_authors
    /\ books \in {NoRows, V3_NumberedBooks(MAX_PAGE_SIZE + 1)}
    /\ resp = NoResponse
    /\ hist = NoHistory
    /\ nreq = 0
    /\ libc = "glibc"
    /\ ParsersIdle
    /\ OnlyApi

NextV3Page ==
    /\ nreq < V3PageRequests
    /\ \/ Serve(V3_api_books_collection(
                    WithToken(POST(TRUE, V3_NumberedPost(NextId(books))))))
       \/ \E kind \in Kinds :
              Serve(V3_api_names_collection(
                        kind, WithToken(POST(TRUE, V2_Named(kind, TxtT, None)))))
       \/ Serve(V3_api_book_item(WithToken(DELETE), 1))
       \/ \E args \in V3PageArgs :
              \/ Serve(V3_api_books_collection(GET(args)))
              \/ \E kind \in Kinds : Serve(V3_api_names_collection(kind, GET(args)))

SpecV3Page == InitV3Page /\ [][NextV3Page]_vars

(***************************************************************************)
(* C11                                                                     *)
(***************************************************************************)
C11_IsListing ==
    /\ variant = "v3"
    /\ resp.req.op \in {"api_books_collection", "api_genres_collection",
                        "api_authors_collection"}
    /\ resp.req.method = "GET"

C11_limit == PyInt(Get(resp.req.args, "limit", <<"1", "0">>))

C11_offset == PyInt(Get(resp.req.args, "offset", <<"0">>))

\* the table the request lists
C11_Listed ==
    CASE resp.req.op = "api_books_collection" -> books
      [] resp.req.op = "api_genres_collection" -> genres
      [] resp.req.op = "api_authors_collection" -> authors

\* the id of an item of the response
C11_IdOf(item) ==
    CASE resp.req.op = "api_books_collection" -> item.Book_ID
      [] resp.req.op = "api_genres_collection" -> item.Genre_ID
      [] resp.req.op = "api_authors_collection" -> item.Author_ID

\* the offset applied is not negative: the response reports it and no item
\* comes from a position before it
C11_OffsetApplied ==
    /\ ~resp.body.offset.neg
    /\ \A i \in 1..Len(resp.body.items) :
           Cardinality({j \in Ids(C11_Listed) : j < C11_IdOf(resp.body.items[i])})
               >= IntVal(resp.body.offset)

\* C11: in variant 3's API list endpoints (/api/v/books, /api/v/genres,
\* /api/v/authors), for every integer limit and offset of the query string
\* the offset applied is >= 0 and the response holds at most
\* MAX_PAGE_SIZE = 100 items.
C11_PageBounded ==
    C11_IsListing /\ C11_limit.ok /\ C11_offset.ok /\ resp.status = 200 =>
        /\ C11_OffsetApplied
        /\ Len(resp.body.items) <= MAX_PAGE_SIZE

\* C11 for a limit that is not negative
C11_PageBoundedFromZero ==
    C11_IsListing /\ C11_limit.ok /\ C11_offset.ok /\ ~C11_limit.neg
    /\ resp.status = 200 =>
        /\ C11_OffsetApplied
        /\ Len(resp.body.items) <= MAX_PAGE_SIZE

\* the offset half of C11, for every integer limit
C11_OffsetNeverNegative ==
    C11_IsListing /\ C11_limit.ok /\ C11_offset.ok /\ resp.status = 200 =>
        C11_OffsetApplied

\* a response of more than MAX_PAGE_SIZE items
C11_OverfullPage ==
    /\ C11_IsListing /\ resp.status = 200
    /\ Len(resp.body.items) > MAX_PAGE_SIZE

\* a limit above MAX_PAGE_SIZE answered with a page of MAX_PAGE_SIZE items
C11_FullPage ==
    /\ C11_IsListing /\ resp.status = 200
    /\ C11_limit = FromNat(101)
    /\ Len(resp.body.items) = MAX_PAGE_SIZE

(***************************************************************************)
(* Variant 4: the list endpoints of the API                                *)
(***************************************************************************)
V4PageRequests == 2

DEFAULT_LIMIT == 10

MAX_LIMIT == 100

\* the body of the i-th of a run of POSTs to /api/v/genres
V4_NumberedPost(i) == [name |-> <<"g">> \o IntToDigits(i)]

\* the rows of genres after init-db and POSTs number lo to hi, as api_genres
\* stores them
V4_NumberedGenres(lo, hi) ==
    V4_sample.genres
        \o [i \in 1..(hi - lo + 1) |->
               Orig_Named("genres", V4_NumberedPost(lo + i - 1).name, None)]

V4LimitTexts ==
    {<<"-", "1">>, <<"0">>, <<"1">>, <<"1", "0", "0">>, <<"1", "0", "1">>, <<"a">>,
     <<" ", "2">>, TxtHuge}

V4OffsetTexts == {<<"-", "1">>, <<"1">>, <<"x">>, <<"1", "0", "0">>, SqliteMinMag}

\* each limit and each offset alone, and some of them together
V4PageArgs ==
    Args(V4LimitTexts, "limit") \cup Args(V4OffsetTexts, "offset")
    \cup {[limit |-> TxtHuge, offset |-> <<"1">>],
          [limit |-> <<"1">>, offset |-> <<"1", "0", "0">>],
          [limit |-> <<"1", "0", "1">>, offset |-> <<"-", "1">>]}

V4FewArgs ==
    {<<>>, [limit |-> <<"1">>, offset |-> <<"1">>], [limit |-> <<"0">>],
     [offset |-> SqliteMinMag], [limit |-> <<"a">>, offset |-> <<"x">>]}

\* the database of init-db, and the same with one genre more than a full page
InitV4Page ==
    /\ variant = "v4"
    /\ authors = V4_sample.authors
    /\ genres \in {V4_sample.genres, V4_NumberedGenres(3, MAX_LIMIT + 1)}
    /\ books = V4_sample.books
    /\ resp = NoResponse
    /\ hist = NoHistory
    /\ nreq = 0
    /\ libc = "glibc"
    /\ ParsersIdle
    /\ OnlyApi

NextV4Page ==
    /\ nreq < V4PageRequests
    /\ \/ Serve(V4_api_names("genres",
                    WithToken(POST(TRUE, V4_NumberedPost(NextId(genres))))))
       \/ Serve(V4_api_name_item("genres", WithToken(DELETE), 2))
       \/ \E args \in V4PageArgs : Serve(V4_api_names("genres", GET(args)))
       \/ \E args \in V4FewArgs :
              \/ Serve(V4_api_books(GET(args), None, None))
              \/ Serve(V4_api_names("authors", GET(args)))

SpecV4Page == InitV4Page /\ [][NextV4Page]_vars

(***************************************************************************)
(* C12                                                                     *)
(***************************************************************************)
C12_IsListing ==
    /\ variant = "v4"
    /\ resp.req.op \in {"api_books", "api_genres", "api_authors"}
    /\ resp.req.method = "GET"

\* what the claim says clamp_limit returns for the text of the query string
C12_Limit(text) ==
    LET n == PyInt(text)
    IN  IF text = None \/ ~n.ok \/ n.neg \/ n.mag = <<"0">> THEN DEFAULT_LIMIT
        ELSE IF Len(n.mag) > 3 THEN MAX_LIMIT
        ELSE Min(DigitsToInt(n.mag), MAX_LIMIT)

\* the offset is 0 for a negative or non-numeric text and the integer of the
\* text otherwise
C12_OffsetFine(text, offset) ==
    LET n == PyInt(text)
    IN  /\ offset.ok /\ ~offset.neg
        /\ offset = IF text = None \/ ~n.ok \/ n.neg THEN FromNat(0) ELSE n

\* the ids of the table the request lists, in ascending order
C12_Result ==
    Ascending(Ids(CASE resp.req.op = "api_books" -> books
                    [] resp.req.op = "api_genres" -> genres
                    [] resp.req.op = "api_authors" -> authors))

C12_Items == IF resp.req.op = "api_books" THEN resp.body.books ELSE resp.body.items

\* C12: in variant 4, clamp_limit returns an integer in 1..100 for every
\* input (10 when the input is absent, non-numeric, zero or negative,
\* min(input, 100) otherwise), api_pagination_params returns an offset >= 0
\* for every input (0 when the input is negative or non-numeric), and every
\* API list response holds at most 100 items, those at positions
\* [offset, offset + limit) of the id-ordered result.
C12_ClampedPage ==
    C12_IsListing =>
        LET pg == V4_api_pagination_params(resp.req.args)
            limit == C12_Limit(Get(resp.req.args, "limit", None))
        IN  /\ limit \in 1..MAX_LIMIT
            /\ pg.limit = FromNat(limit)
            /\ C12_OffsetFine(Get(resp.req.args, "offset", None), pg.offset)
            /\ resp.status = 200 =>
                   /\ resp.body.limit = pg.limit /\ resp.body.offset = pg.offset
                   /\ Len(C12_Items) <= MAX_LIMIT
                   /\ Len(C12_Items) =
                          Max(0, Min(limit, Len(C12_Result) - IntVal(pg.offset)))
                   /\ \A i \in 1..Len(C12_Items) :
                          C12_Items[i].id = C12_Result[IntVal(pg.offset) + i]

\* a limit above MAX_LIMIT and an offset of 1 on 101 genres: the genres at
\* positions 1 to 100 are returned and the first one is not
C12_FullPageServed ==
    /\ C12_IsListing /\ resp.req.op = "api_genres" /\ resp.status = 200
    /\ Get(resp.req.args, "limit", None) = TxtHuge
    /\ Get(resp.req.args, "offset", None) = <<"1">>
    /\ Len(C12_Result) = MAX_LIMIT + 1
    /\ Len(resp.body.items) = MAX_LIMIT
    /\ resp.body.items[1].id = 2

\* a list request that is not answered with a list: the offset is an integer
\* SQLite cannot bind
C12_OffsetOverflow ==
    /\ C12_IsListing /\ resp.status = 500
    /\ BindOverflows(V4_api_pagination_params(resp.req.args).offset)

\* every list request whose offset SQLite can bind is answered 200
C12_Answered ==
    C12_IsListing /\ ~BindOverflows(V4_api_pagination_params(resp.req.args).offset) =>
        resp.status = 200

(***************************************************************************)
(* remove_3.py: the list endpoints of the API                              *)
(***************************************************************************)
R3PageRequests == 3

R3LimitTexts == {<<"0">>, <<"1">>, <<"2">>, <<"-", "1">>, <<"a">>, SqliteMinMag}

R3OffsetTexts == {<<"0">>, <<"1">>, <<"3">>, <<"-", "1">>, SqliteMinMag}

\* pagination, alone and together with a date bound
R3PageArgs ==
    {Join(a, b) : a \in Args(R3LimitTexts, "limit"), b \in Args(R3OffsetTexts, "offset")}
    \cup {Join(a, b) : a \in {[limit |-> <<"1">>], [limit |-> <<"0">>],
                              [offset |-> <<"1">>, limit |-> <<"2">>]},
                       b \in {[after_date |-> YMD(2020, 1, 15)],
                              [before_date |-> YMD(2020, 12, 31)]}}

InitR3Page ==
    /\ variant = "r3"
    /\ R3_seed_if_empty
    /\ resp = NoResponse
    /\ hist = NoHistory
    /\ nreq = 0
    /\ libc = "glibc"
    /\ ParsersIdle
    /\ OnlyApi

NextR3Page ==
    /\ nreq < R3PageRequests
    /\ \/ \E payload \in ListPosts :
              Serve(R3_api_books(WithToken(POST(TRUE, payload)), None, None))
       \/ \E kind \in Kinds :
              Serve(R3_api_names(kind, WithToken(POST(TRUE, V2_Named(kind, TxtT, None)))))
       \/ Serve(R3_api_book_detail(WithToken(DELETE), 1, None))
       \/ \E args \in R3PageArgs :
              \/ Serve(R3_api_books(GET(args), None, None))
              \/ \E kind \in Kinds : Serve(R3_api_names(kind, GET(args)))

SpecR3Page == InitR3Page /\ [][NextR3Page]_vars

(***************************************************************************)
(* C13                                                                     *)
(***************************************************************************)
C13_IsListing ==
    /\ variant = "r3"
    /\ resp.req.op \in {"api_books", "api_genres", "api_authors"}
    /\ resp.req.method = "GET"

C13_limit == PyInt(Get(resp.req.args, "limit", <<>>))

C13_offset == PyInt(Get(resp.req.args, "offset", <<"0">>))

\* the date bound of the request under key k, None if there is none
C13_Bound(k) ==
    IF resp.req.op = "api_books" THEN Strptime(Get(resp.req.args, k, <<>>), <<>>)
    ELSE None

\* the ids of the rows that match the request
C13_Matching ==
    CASE resp.req.op = "api_books" ->
             {id \in Ids(books) :
                 DateInRange(books[id].Book_Publication_Date, C13_Bound("after_date"),
                             C13_Bound("before_date"))}
      [] resp.req.op = "api_genres" -> Ids(genres)
      [] resp.req.op = "api_authors" -> Ids(authors)

\* the row of id as the endpoint renders it
C13_Item(id) ==
    CASE resp.req.op = "api_books" -> R3_Book_to_dict(id, books[id])
      [] resp.req.op = "api_genres" -> V2_Named_to_dict("genres", id, genres[id])
      [] resp.req.op = "api_authors" -> V2_Named_to_dict("authors", id, authors[id])

\* the body is exactly the matching rows at positions [offset, offset + limit)
\* in ascending id
C13_IsPage(body, offset, limit) ==
    LET rows == Ascending(C13_Matching)
    IN  /\ Len(body) = Max(0, Min(limit, Len(rows) - offset))
        /\ \A i \in 1..Len(body) : body[i] = C13_Item(rows[offset + i])

\* C13: in the API list endpoints of remove_3 (/api/v/books, /api/v/genres,
\* /api/v/authors), for any offset >= 0 and limit >= 0 the items returned are
\* exactly the rows at positions [offset, offset + limit) of the id-ordered
\* matching rows; in particular limit = 0 returns an empty list.
C13_Pagination ==
    C13_IsListing /\ C13_limit.ok /\ ~C13_limit.neg /\ C13_offset.ok /\ ~C13_offset.neg =>
        /\ resp.status = 200
        /\ C13_IsPage(resp.body, IntVal(C13_offset), IntVal(C13_limit))

\* C13 for a limit of at least 1, limit and offset at most 2^63 - 1
C13_PaginationFromOne ==
    C13_IsListing /\ C13_limit.ok /\ ~C13_limit.neg /\ C13_offset.ok /\ ~C13_offset.neg
    /\ C13_limit.mag # <<"0">>
    /\ ~BindOverflows(C13_limit) /\ ~BindOverflows(C13_offset) =>
        /\ resp.status = 200
        /\ C13_IsPage(resp.body, IntVal(C13_offset), IntVal(C13_limit))

\* limit = 0 answered with every matching row from the offset on
C13_ZeroLimitUnlimited ==
    /\ C13_IsListing /\ resp.status = 200
    /\ C13_limit.ok /\ C13_limit.mag = <<"0">>
    /\ Len(resp.body) >= 2

\* a page that starts inside the matching rows and ends before their last
C13_PageServed ==
    /\ C13_IsListing /\ resp.status = 200
    /\ C13_limit = FromNat(1) /\ C13_offset = FromNat(1)
    /\ Len(resp.body) = 1
    /\ Cardinality(C13_Matching) = 3

(***************************************************************************)
(* The API date parsers of variants 3, 4 and remove_3                      *)
(***************************************************************************)
LaterParsers == {"v3", "v4", "r3"}

\* what the parser returns for s, None where it fails; du is the answer of
\* dateutil's parser where the parser falls back to it
RunLaterParser(p, s, du) ==
    CASE p = "v3" -> V3_parse_api_date(s)
      [] p = "v4" -> V4_parse_yyyymmdd(s, du)
      [] p = "r3" -> R3_parse_yyyymmdd(s, du).dt

\* one call of a date parser of the later variants on the current input
ParseLaterDate(p) ==
    /\ dateOut = Pending
    /\ \E du \in DateutilAnswers(IF p = "v4" THEN Strip(dateIn) ELSE dateIn) :
           dateOut' = [parser |-> p, result |-> RunLaterParser(p, dateIn, du)]
    /\ UNCHANGED dateIn

InitLaterDate ==
    /\ dateIn \in DateInputs \cup {TxtJan2020}
    /\ dateOut = Pending
    /\ WebIdle

NextLaterDate == \E p \in LaterParsers : ParseLaterDate(p) /\ UNCHANGED <<webVars, simVars>>

SpecLaterDate == InitLaterDate /\ [][NextLaterDate]_vars

(***************************************************************************)
(* C14                                                                     *)
(***************************************************************************)
\* C14: in variants 3, 4 and remove_3 the API date parser (parse_api_date,
\* parse_yyyymmdd) yields the date for every text of 8 digits YYYYMMDD naming
\* a real calendar date and a failure for every other non-empty text, such
\* as 'YYYY-MM-DD', 8 characters with a blank among them, or free-form date
\* text.
C14_ParsersStrict ==
    dateOut # Pending /\ dateOut.parser \in LaterParsers /\ dateIn # <<>>
        => dateOut.result = C1_Expected(dateIn)

\* the first half of C14: the date of every text of 8 digits naming a real
\* calendar date
C14_DatesParsed ==
    dateOut # Pending /\ dateOut.parser \in LaterParsers /\ C1_IsDateText(dateIn)
        => dateOut.result = C1_Expected(dateIn)

\* C14 for variant 3, apart from a blank in place of the tens of the day,
\* which strptime's %d takes
C14_V3StrictButBlankDay ==
    dateOut # Pending /\ dateOut.parser = "v3" /\ dateIn # <<>>
        => dateOut.result =
               IF Len(dateIn) = 8 /\ dateIn[7] = " "
               THEN C1_Expected([dateIn EXCEPT ![7] = "0"])
               ELSE C1_Expected(dateIn)

\* variant 3 has taken 8 characters with a blank among them as a date
C14_BlankDayParsed ==
    /\ dateOut # Pending /\ dateOut.parser = "v3"
    /\ Len(dateIn) = 8 /\ dateIn[7] = " "
    /\ dateOut.result # None

\* variant 4 has taken a 'YYYY-MM-DD' text as a date
C14_IsoParsed ==
    /\ dateOut # Pending /\ dateOut.parser = "v4"
    /\ dateIn = ISO(2020, 1, 1)
    /\ dateOut.result = <<2020, 1, 1>>

\* remove_3 has handed a 'YYYY-MM-DD' text to dateutil and returned its date
C14_IsoParsedByDateutil ==
    /\ dateOut # Pending /\ dateOut.parser = "r3"
    /\ dateIn = ISO(2020, 1, 1)
    /\ dateOut.result = <<2020, 1, 1>>

(***************************************************************************)
(* remove_3.py: genres and authors through the API                         *)
(***************************************************************************)
R3NameRequests == 3

InitR3Names ==
    /\ variant = "r3"
    /\ R3_seed_if_empty
    /\ resp = NoResponse
    /\ hist = NoHistory
    /\ nreq = 0
    /\ libc = "glibc"
    /\ ParsersIdle
    /\ OnlyApi

NextR3Names ==
    /\ nreq < R3NameRequests
    /\ \E kind \in Kinds :
          \/ \E name \in NameTexts, tok \in BOOLEAN :
                 Serve(R3_api_names(kind, Token(tok, POST(TRUE, V2_Named(kind, name, <<"d">>)))))
          \/ Serve(R3_api_names(kind, WithToken(POST(FALSE, <<>>))))
          \/ Serve(R3_api_names(kind, GET(<<>>)))
          \/ \E id \in SomeIds(Table(kind), hist.gone[kind]) :
                 \/ \E payload \in NamePuts(kind) :
                        Serve(R3_api_name_detail(kind, WithToken(PUT(TRUE, payload)), id))
                 \/ Serve(R3_api_name_detail(kind, WithToken(DELETE), id))

SpecR3Names == InitR3Names /\ [][NextR3Names]_vars

(***************************************************************************)
(* C15                                                                     *)
(***************************************************************************)
C15_Kind(op) == IF op = "api_genres" THEN "genres" ELSE "authors"

\* this step serves a JSON POST to /api/v/genres or /api/v/authors whose
\* name is, by Same, the name of a row of the table
C15_Names(Same(_, _)) ==
    /\ nreq' = nreq + 1
    /\ variant = "r3"
    /\ resp'.req.op \in {"api_genres", "api_authors"}
    /\ resp'.req.method = "POST"
    /\ resp'.req.is_json
    /\ NameCol(C15_Kind(resp'.req.op)) \in DOMAIN resp'.req.payload
    /\ \E j \in Ids(Table(C15_Kind(resp'.req.op))) :
           Same(Table(C15_Kind(resp'.req.op))[j][NameCol(C15_Kind(resp'.req.op))],
                resp'.req.payload[NameCol(C15_Kind(resp'.req.op))])

\* C15: in remove_3, a POST to /api/v/genres or /api/v/authors with a name
\* that an existing row already has is rejected with status 409 or 400, no
\* row is created and the existing rows are unchanged.
C15_DuplicateRejected ==
    [][C15_Names(LAMBDA old, new : old = new)
           => resp'.status \in {409, 400} /\ UNCHANGED dbVars]_vars

\* what the code does with a name that, stripped of surrounding blanks, is
\* the name of a row: no row changes, and the request that reaches the view
\* function is answered 500
C15_DuplicateLeavesRows ==
    [][C15_Names(LAMBDA old, new : old = Strip(new))
           => /\ UNCHANGED dbVars
              /\ resp'.status = IF CsrfRejects(resp'.req) THEN 400 ELSE 500]_vars

\* a POST with the name of a seeded row has been answered 500
C15_DuplicateAnswered500 ==
    /\ variant = "r3"
    /\ resp.req.op \in {"api_genres", "api_authors"}
    /\ resp.req.method = "POST"
    /\ resp.status = 500
    /\ resp.req.payload[NameCol(C15_Kind(resp.req.op))] \in {TxtFiction, TxtJaneDoe}

(***************************************************************************)
(* Variant 3: genres and authors through the API                           *)
(***************************************************************************)
V3NameRequests == 3

InitV3Names ==
    /\ variant = "v3"
    /\ V3_init_db
    /\ resp = NoResponse
    /\ hist = NoHistory
    /\ nreq = 0
    /\ libc = "glibc"
    /\ ParsersIdle
    /\ OnlyApi

NextV3Names ==
    /\ nreq < V3NameRequests
    /\ \E kind \in Kinds :
          \/ \E name \in NameTexts :
                 Serve(V3_api_names_collection(
                           kind, WithToken(POST(TRUE, V2_Named(kind, name, <<"d">>)))))
          \/ Serve(V3_api_names_collection(kind, POST(TRUE, V2_Named(kind, <<"x">>, <<"d">>))))
          \/ Serve(V3_api_names_collection(kind, WithToken(POST(FALSE, <<>>))))
          \/ Serve(V3_api_names_collection(kind, GET(<<>>)))
          \/ \E id \in SomeIds(Table(kind), hist.gone[kind]) :
                 \/ \E payload \in NamePuts(kind) :
                        Serve(V3_api_name_item(kind, WithToken(PUT(TRUE, payload)), id))
                 \/ Serve(V3_api_name_item(kind, WithToken(DELETE), id))

SpecV3Names == InitV3Names /\ [][NextV3Names]_vars

(***************************************************************************)
(* C16                                                                     *)
(***************************************************************************)
C16_Kind(op) ==
    IF op \in {"api_genres_collection", "api_genre_item"} THEN "genres" ELSE "authors"

\* the name the request stores is the name of a row other than the one it
\* writes: the UNIQUE index refuses the row and the commit fails
C16_NameTaken(req, self) ==
    LET kind == C16_Kind(req.op)
    IN  /\ NameCol(kind) \in DOMAIN req.payload
        /\ \E j \in Ids(Table(kind)) \ self :
               Table(kind)[j][NameCol(kind)] = Strip(req.payload[NameCol(kind)])

\* this step serves a create or an update of a genre or an author that
\* reaches db.session.commit(), and the commit fails
C16_CommitFails ==
    /\ nreq' = nreq + 1
    /\ variant = "v3"
    /\ ~CsrfRejects(resp'.req)
    /\ \/ /\ resp'.req.op \in {"api_genres_collection", "api_authors_collection"}
          /\ resp'.req.method = "POST"
          /\ resp'.req.is_json
          /\ Get(resp'.req.payload, NameCol(C16_Kind(resp'.req.op)), <<>>) # <<>>
          /\ C16_NameTaken(resp'.req, {})
       \/ /\ resp'.req.op \in {"api_genre_item", "api_author_item"}
          /\ resp'.req.method = "PUT"
          /\ resp'.req.id \in Ids(Table(C16_Kind(resp'.req.op)))
          /\ resp'.req.is_json
          /\ C16_NameTaken(resp'.req, {resp'.req.id})

\* C16: in variant 3, whenever the database commit fails during an API
\* create, update or delete, the session is rolled back, so that nothing of
\* the request's change is persisted, and the response status is 500.
C16_RollbackAnd500 ==
    [][C16_CommitFails => UNCHANGED dbVars /\ resp'.status = 500]_vars

\* the rollback half of C16, with the status the code sends
C16_RollbackAnd400 ==
    [][C16_CommitFails => UNCHANGED dbVars /\ resp'.status = 400]_vars

\* an update whose commit failed has been answered 400
C16_FailedUpdate ==
    /\ variant = "v3"
    /\ resp.req.op \in {"api_genre_item", "api_author_item"}
    /\ resp.req.method = "PUT"
    /\ resp.status = 400
    /\ resp.body.message = "Database error updating"

(***************************************************************************)
(* Variant 2: the HTML pages and their CSRF token                          *)
(*                                                                         *)
(* session[b] is the session cookie browser b holds (Flask keeps the       *)
(* session in the cookie) together with the tokens of the forms b was      *)
(* sent.  A token is <<n>>, the n-th value secrets.token_urlsafe(32)       *)
(* returned; a response to an HTML request is reduced to its status, the   *)
(* template or redirect target, and the token the page embeds.             *)
(***************************************************************************)
V2FormRequests == 2

Browsers == {"a", "b"}

V2_token(n) == <<n>>

\* the session of a browser that has no cookie yet
V2_NewSession == [csrf_token |-> None, flashes |-> <<>>, forms |-> {}]

\* the serial numbers of the tokens that are in a cookie or in a form
V2_Serials ==
    UNION {{t[1] : t \in ({session[b].csrf_token} \ {None}) \cup session[b].forms} :
               b \in Browsers}

\* secrets.token_urlsafe(32): a value never returned before
V2_token_urlsafe == V2_token(1 + MaxOf(V2_Serials \cup {0}))

\* make_csrf_token: the new token replaces the session's token
V2_make_csrf_token(sess, token) == [sess EXCEPT !.csrf_token = token]

\* flash(message)
V2_flash(sess, message) == [sess EXCEPT !.flashes = Append(@, message)]

\* flash() once for each message, in order
RECURSIVE V2_flash_all(_, _)
V2_flash_all(sess, messages) ==
    IF messages = <<>> THEN sess
    ELSE V2_flash_all(V2_flash(sess, Head(messages)), Tail(messages))

\* a page asked for by browser b, and a form posted by it with the given
\* request headers
V2_Get(b) == [method |-> "GET", browser |-> b, form |-> <<>>, headers |-> <<>>]

V2_Submit(b, form, headers) == Join(SUBMIT(form), [browser |-> b, headers |-> headers])

TxtApplicationJson ==
    <<"a", "p", "p", "l", "i", "c", "a", "t", "i", "o", "n", "/", "j", "s", "o", "n">>

\* the entity's name in flashed messages and in template names
V2_Noun(kind) ==
    CASE kind = "books" -> "Book" [] kind = "genres" -> "Genre" [] kind = "authors" -> "Author"

V2_view(kind, what) ==
    (CASE kind = "books" -> "book" [] kind = "genres" -> "genre"
       [] kind = "authors" -> "author") \o what

V2_NOUN(kind) ==
    CASE kind = "books" -> "BOOK" [] kind = "genres" -> "GENRE" [] kind = "authors" -> "AUTHOR"

\* Python's  x or y  for two texts
PyOr(x, y) == IF x # <<>> THEN x ELSE y

\* validate_csrf without the comparison with the session's token
V2_validate_csrf_any(req) ==
    LET token_sess == session[req.browser].csrf_token
        token_form == PyOr(Get(req.form, "_csrf_token", None),
                           Get(req.headers, "X-CSRF-Token", None))
    IN  token_sess # None /\ token_form # None

V2_validate_csrf(req) ==
    LET token_sess == session[req.browser].csrf_token
        token_form == PyOr(Get(req.form, "_csrf_token", None),
                           Get(req.headers, "X-CSRF-Token", None))
    IN  token_sess # None /\ token_form # None /\ token_sess = token_form

\* the view function returns with session sess and the given response
V2_return(req, sess, status, body) ==
    /\ session' = [session EXCEPT ![req.browser] = sess]
    /\ resp' = Reply(req, status, body)

\* redirect(url_for(endpoint))
V2_redirect(req, sess, endpoint) == V2_return(req, sess, 302, [location |-> endpoint])

\* render_error: JSON for a client that asks for it, else a flashed message
\* and a redirect to the home page (no HTML route is under /api/)
V2_render_error(req, sess, message, status) ==
    IF Get(req.headers, "Accept", None) = TxtApplicationJson
    THEN V2_return(req, sess, status, [message |-> message])
    ELSE V2_redirect(req, V2_flash(sess, message), "home")

\* render_template_base: make_csrf_token() runs before the template is
\* rendered.  Every template starts with {% extends base %}, where base is
\* the text of BASE_HTML and not a template name: Jinja looks that text up
\* as a name and raises TemplateNotFound unless its loader finds it (found);
\* BASE_HTML shows the flashed messages and so empties them.
V2_render_template_base(req, sess, template, embeds, found) ==
    LET token == V2_token_urlsafe
        made == V2_make_csrf_token(sess, token)
    IN  IF found
        THEN V2_return(req,
                 [made EXCEPT !.flashes = <<>>,
                              !.forms = IF embeds THEN @ \cup {token} ELSE @],
                 200,
                 [page |-> template, csrf_token |-> IF embeds THEN token ELSE None])
        ELSE V2_return(req, made, 500, [message |-> "Internal Server Error"])

\* csrf_protect: the wrapper around view function f
V2_csrf_protect(req, f) ==
    IF req.method \in {"POST", "PUT", "DELETE"} /\ ~V2_validate_csrf(req)
    THEN /\ V2_render_error(req, session[req.browser], "Invalid CSRF token", 400)
         /\ UNCHANGED dbVars
    ELSE f

\* the three tables by name
V2_Table(kind) == IF kind = "books" THEN books ELSE Table(kind)

V2_SetTable(kind, tbl) ==
    IF kind = "books" THEN books' = tbl /\ UNCHANGED <<genres, authors>>
    ELSE SetTable(kind, tbl)

\* home, api_info, books, genres, authors: pages without a route parameter;
\* a list page has one delete form for each row
V2_page(r, view, found) ==
    LET req == Join([op |-> view], r)
        template == CASE view = "home" -> "HOME_HTML"
                      [] view = "api_info" -> "API_INFO_HTML"
                      [] view = "books" -> "BOOKS_HTML"
                      [] view = "genres" -> "GENRES_HTML"
                      [] view = "authors" -> "AUTHORS_HTML"
        embeds == view \notin {"home", "api_info"} /\ V2_Table(view) # <<>>
    IN  /\ V2_render_template_base(req, session[r.browser], template, embeds, found)
        /\ UNCHANGED dbVars

\* book_detail, genre_detail, author_detail
V2_detail(r, kind, id, found) ==
    LET req == Join([op |-> V2_view(kind, "_detail"), id |-> id], r)
    IN  /\ IF id \notin Ids(V2_Table(kind))
           THEN V2_return(req, session[r.browser], 404, <<>>)
           ELSE V2_render_template_base(req, session[r.browser], V2_NOUN(kind) \o "_DETAIL_HTML",
                                        TRUE, found)
        /\ UNCHANGED dbVars

\* the fields of the book form, stripped
V2_book_form(form) == [k \in BookColumns |-> Strip(Get(form, k, <<>>))]

\* the messages book_create and book_update flash for a form they refuse
V2_book_form_errors(data) ==
    LET Msg(bad, text) == IF bad THEN <<text>> ELSE <<>>
    IN  Msg(data.Book_Title = <<>>, "Book_Title: Title is required")
        \o Msg(data.Book_Author = <<>>, "Book_Author: Author is required")
        \o Msg(data.Book_Genre = <<>>, "Book_Genre: Genre is required")
        \o Msg(/\ data.Book_Publication_Date # <<>>
               /\ StrptimeIso(data.Book_Publication_Date) = None,
               "Book_Publication_Date: Invalid date format (expected YYYY-MM-DD)")

V2_book_of_form(data) ==
    V2_Book(data.Book_Title, data.Book_Author, data.Book_Genre, data.Book_Publication,
            IF data.Book_Publication_Date # <<>>
            THEN StrptimeIso(data.Book_Publication_Date) ELSE None,
            data.Book_Description)

\* book_create
V2_book_create(r, found) ==
    LET req == Join([op |-> "book_create"], r)
        sess == session[r.browser]
    IN  V2_csrf_protect(req,
            IF r.method = "GET"
            THEN /\ V2_render_template_base(req, sess, "BOOK_FORM_HTML", TRUE, found)
                 /\ UNCHANGED dbVars
            ELSE LET data == V2_book_form(r.form)
                     errors == V2_book_form_errors(data)
                 IN  IF errors # <<>>
                     THEN /\ V2_render_template_base(req, V2_flash_all(sess, errors),
                                                     "BOOK_FORM_HTML", TRUE, found)
                          /\ UNCHANGED dbVars
                     ELSE /\ books' = Insert(books, NextId(books), V2_book_of_form(data))
                          /\ UNCHANGED <<genres, authors>>
                          /\ V2_redirect(req, V2_flash(sess, "Book added successfully"),
                                         "books"))

\* book_update
V2_book_update(r, book_id, found) ==
    LET req == Join([op |-> "book_update", id |-> book_id], r)
        sess == session[r.browser]
    IN  V2_csrf_protect(req,
            IF book_id \notin Ids(books)
            THEN V2_return(req, sess, 404, <<>>) /\ UNCHANGED dbVars
            ELSE IF r.method = "GET"
            THEN /\ V2_render_template_base(req, sess, "BOOK_FORM_HTML", TRUE, found)
                 /\ UNCHANGED dbVars
            ELSE LET data == V2_book_form(r.form)
                     errors == V2_book_form_errors(data)
                 IN  IF errors # <<>>
                     THEN /\ V2_render_template_base(req, V2_flash_all(sess, errors),
                                                     "BOOK_FORM_HTML", TRUE, found)
                          /\ UNCHANGED dbVars
                     ELSE /\ books' = [books EXCEPT ![book_id] = V2_book_of_form(data)]
                          /\ UNCHANGED <<genres, authors>>
                          /\ V2_redirect(req, V2_flash(sess, "Book updated successfully"),
                                         "books"))

\* book_delete, genre_delete, author_delete
V2_delete(r, kind, id) ==
    LET req == Join([op |-> V2_view(kind, "_delete"), id |-> id], r)
        sess == session[r.browser]
    IN  V2_csrf_protect(req,
            IF id \notin Ids(V2_Table(kind))
            THEN V2_return(req, sess, 404, <<>>) /\ UNCHANGED dbVars
            ELSE /\ V2_SetTable(kind, Delete(V2_Table(kind), id))
                 /\ V2_redirect(req, V2_flash(sess, V2_Noun(kind) \o " deleted"), kind))

\* genre_create, author_create
V2_name_create(r, kind, found) ==
    LET req == Join([op |-> V2_view(kind, "_create")], r)
        sess == session[r.browser]
        tbl == Table(kind)
    IN  V2_csrf_protect(req,
            IF r.method = "GET"
            THEN /\ V2_render_template_base(req, sess, V2_NOUN(kind) \o "_FORM_HTML", TRUE, found)
                 /\ UNCHANGED dbVars
            ELSE LET name == Strip(Get(r.form, NameCol(kind), <<>>))
                     text == Strip(Get(r.form, TextCol(kind), <<>>))
                     id == NextId(tbl)
                 IN  IF name = <<>>
                     THEN /\ V2_render_template_base(req, V2_flash(sess, "Name is required"),
                                                     V2_NOUN(kind) \o "_FORM_HTML", TRUE, found)
                          /\ UNCHANGED dbVars
                     ELSE IF ~UniqueOk(tbl, id, NameCol(kind), name)
                     THEN /\ V2_render_template_base(req,
                                 V2_flash(sess, V2_Noun(kind) \o " with this name already exists"),
                                 V2_NOUN(kind) \o "_FORM_HTML", TRUE, found)
                          /\ UNCHANGED dbVars        \* IntegrityError, rollback
                     ELSE /\ SetTable(kind, Insert(tbl, id, V2_Named(kind, name, text)))
                          /\ V2_redirect(req, V2_flash(sess, V2_Noun(kind) \o " created"), kind))

\* genre_update, author_update
V2_name_update(r, kind, id, found) ==
    LET req == Join([op |-> V2_view(kind, "_update"), id |-> id], r)
        sess == session[r.browser]
        tbl == Table(kind)
    IN  V2_csrf_protect(req,
            IF id \notin Ids(tbl)
            THEN V2_return(req, sess, 404, <<>>) /\ UNCHANGED dbVars
            ELSE IF r.method = "GET"
            THEN /\ V2_render_template_base(req, sess, V2_NOUN(kind) \o "_FORM_HTML", TRUE, found)
                 /\ UNCHANGED dbVars
            ELSE LET name == Strip(Get(r.form, NameCol(kind), <<>>))
                     text == Strip(Get(r.form, TextCol(kind), <<>>))
                 IN  IF name = <<>>
                     THEN /\ V2_render_template_base(req, V2_flash(sess, "Name is required"),
                                                     V2_NOUN(kind) \o "_FORM_HTML", TRUE, found)
                          /\ UNCHANGED dbVars
                     ELSE IF ~UniqueOk(tbl, id, NameCol(kind), name)
                     THEN /\ V2_render_template_base(req,
                                 V2_flash(sess, V2_Noun(kind) \o " with this name already exists"),
                                 V2_NOUN(kind) \o "_FORM_HTML", TRUE, found)
                          /\ UNCHANGED dbVars        \* IntegrityError, rollback
                     ELSE /\ SetTable(kind, [tbl EXCEPT ![id] = V2_Named(kind, name, text)])
                          /\ V2_redirect(req, V2_flash(sess, V2_Noun(kind) \o " updated"), kind))

\* one HTML request served by view action A
ServeHtml(A) ==
    /\ A
    /\ hist' = [gone |-> [genres |-> GoneAfter(hist.gone.genres, genres, genres'),
                          authors |-> GoneAfter(hist.gone.authors, authors, authors'),
                          books |-> GoneAfter(hist.gone.books, books, books')],
                posted |-> hist.posted]
    /\ nreq' = nreq + 1
    /\ UNCHANGED <<variant, libc, dateIn, dateOut, pending, simVars>>

\* the tokens a client can present: those in a cookie or a form, and one
\* that was never issued
V2_Known == {V2_token(n) : n \in V2_Serials \cup {0}}

\* the _csrf_token form field and the X-CSRF-Token header of a request
V2_Credentials ==
    {<<f, None>> : f \in V2_Known \cup {None}}
    \cup {<<f, h>> : f \in {None, V2_token(0)}, h \in V2_Known}

V2_WithToken(form, c) ==
    IF c[1] = None THEN form ELSE Join([k \in {"_csrf_token"} |-> c[1]], form)

V2_Headers(c, accept) ==
    Join(IF c[2] = None THEN <<>> ELSE [k \in {"X-CSRF-Token"} |-> c[2]],
         IF accept = None THEN <<>> ELSE [Accept |-> accept])

V2_BookForms ==
    {V2_NewBook(TxtT, TxtA, TxtG),
     Join(V2_NewBook(<<>>, TxtA, TxtG), [Book_Publication_Date |-> <<"2", "0", "2", "0">>])}

V2_NameForms(kind) ==
    {[k \in {NameCol(kind)} |-> name] : name \in {TxtT, IF kind = "genres" THEN TxtFiction ELSE TxtJaneDoe, <<>>}}

InitV2Forms ==
    /\ variant = "v2"
    /\ V2_create_tables
    /\ resp = NoResponse
    /\ hist = NoHistory
    /\ nreq = 0
    /\ libc = "glibc"
    /\ ParsersIdle
    /\ session = [b \in Browsers |-> V2_NewSession]
    /\ pending = <<>>
    /\ SimulationIdle

NextV2Forms ==
    /\ nreq < V2FormRequests
    /\ \E b \in Browsers :
          \/ \E found \in BOOLEAN :
                 \/ \E view \in {"home", "api_info", "books", "genres", "authors"} :
                        ServeHtml(V2_page(V2_Get(b), view, found))
                 \/ \E kind \in {"books", "genres", "authors"}, id \in {1, 3} :
                        ServeHtml(V2_detail(V2_Get(b), kind, id, found))
                 \/ ServeHtml(V2_book_create(V2_Get(b), found))
                 \/ \E id \in {1, 3} : ServeHtml(V2_book_update(V2_Get(b), id, found))
                 \/ \E kind \in Kinds :
                        \/ ServeHtml(V2_name_create(V2_Get(b), kind, found))
                        \/ \E id \in {1, 3} :
                               ServeHtml(V2_name_update(V2_Get(b), kind, id, found))
          \/ \E c \in V2_Credentials :
                 \/ \E form \in V2_BookForms :
                        \/ ServeHtml(V2_book_create(
                               V2_Submit(b, V2_WithToken(form, c), V2_Headers(c, None)), TRUE))
                        \/ ServeHtml(V2_book_update(
                               V2_Submit(b, V2_WithToken(form, c), V2_Headers(c, None)), 1, FALSE))
                 \/ \E kind \in Kinds : \E form \in V2_NameForms(kind) :
                        \/ ServeHtml(V2_name_create(
                               V2_Submit(b, V2_WithToken(form, c), V2_Headers(c, None)),
                               kind, FALSE))
                        \/ ServeHtml(V2_name_update(
                               V2_Submit(b, V2_WithToken(form, c), V2_Headers(c, None)),
                               kind, 2, TRUE))
                 \/ \E kind \in {"books", "genres", "authors"}, id \in {1, 3},
                        accept \in {None, TxtApplicationJson} :
                        ServeHtml(V2_delete(
                            V2_Submit(b, V2_WithToken(<<>>, c), V2_Headers(c, accept)),
                            kind, id))

SpecV2Forms == InitV2Forms /\ [][NextV2Forms]_vars

(***************************************************************************)
(* C17                                                                     *)
(***************************************************************************)
\* the request being served is a POST to one of the nine create, update and
\* delete routes of the HTML pages
C17_IsPost ==
    /\ resp'.req.method = "POST"
    /\ resp'.req.op \in {"book_create", "book_update", "book_delete",
                         "genre_create", "genre_update", "genre_delete",
                         "author_create", "author_update", "author_delete"}

\* the token a request carries: its _csrf_token form field, or its
\* X-CSRF-Token header when the form has no such field
C17_Carried(req) ==
    IF Get(req.form, "_csrf_token", None) # None
    THEN req.form["_csrf_token"]
    ELSE Get(req.headers, "X-CSRF-Token", None)

\* the request carries no token, or one that differs from the token of its
\* session, or its session holds no token
C17_BadToken ==
    LET req == resp'.req
        stored == session[req.browser].csrf_token
    IN  \/ stored = None
        \/ C17_Carried(req) = None
        \/ C17_Carried(req) # stored

\* the answer of csrf_protect: render_error("Invalid CSRF token")
C17_Refused(before, after, answer) ==
    /\ after.csrf_token = before.csrf_token
    /\ after.forms = before.forms
    /\ \/ answer.status = 400 /\ answer.body = [message |-> "Invalid CSRF token"]
          /\ after.flashes = before.flashes
       \/ answer.status = 302 /\ answer.body = [location |-> "home"]
          /\ after.flashes = Append(before.flashes, "Invalid CSRF token")

\* C17: in variant 2 a POST to an HTML create, update or delete route whose
\* CSRF token is missing, or differs from the token stored in the session,
\* or whose session holds no token, never reaches the body of the view
\* function: it is answered by render_error("Invalid CSRF token"), the
\* session keeps its token, and no row is created, changed or deleted.
C17_BadTokenNeverReachesView ==
    [][C17_IsPost /\ C17_BadToken
           => /\ UNCHANGED dbVars
              /\ C17_Refused(session[resp'.req.browser], session'[resp'.req.browser],
                             resp')]_vars

\* a form with a token that is no longer (or never was) the session's token
\* asked to delete a row that exists, and was refused
C17_DeleteRefused ==
    /\ resp.req.op \in {"book_delete", "genre_delete", "author_delete"}
    /\ resp.req.id = 1
    /\ C17_Carried(resp.req) # None
    /\ session[resp.req.browser].csrf_token # None
    /\ C17_Carried(resp.req) # session[resp.req.browser].csrf_token
    /\ resp.status = 302 /\ resp.body = [location |-> "home"]
    /\ 1 \in Ids(books) /\ 1 \in Ids(genres) /\ 1 \in Ids(authors)

\* a POST with the session's token reaches the view function
C17_GoodTokenServed ==
    /\ resp.req.op = "book_delete"
    /\ resp.status = 302 /\ resp.body = [location |-> "books"]
    /\ 1 \notin Ids(books)

(***************************************************************************)
(* Variant 2: a browser with several pages open                            *)
(***************************************************************************)
V2TabRequests == 3

\* pages are opened and the forms of the pages received so far are
\* submitted, each with the token it was rendered with
NextV2Tabs ==
    /\ nreq < V2TabRequests
    /\ \E b \in Browsers :
          \/ \E found \in BOOLEAN :
                 \/ \E view \in {"home", "books"} : ServeHtml(V2_page(V2_Get(b), view, found))
                 \/ ServeHtml(V2_detail(V2_Get(b), "authors", 1, found))
                 \/ ServeHtml(V2_book_create(V2_Get(b), found))
                 \/ ServeHtml(V2_name_update(V2_Get(b), "genres", 1, found))
          \/ \E t \in session[b].forms \cup {None} :
                 \/ \E form \in V2_BookForms :
                        ServeHtml(V2_book_create(
                            V2_Submit(b, V2_WithToken(form, <<t, None>>), <<>>), TRUE))
                 \/ ServeHtml(V2_name_update(
                        V2_Submit(b, V2_WithToken([Genre_Name |-> TxtT], <<t, None>>), <<>>),
                        "genres", 1, TRUE))
                 \/ \E kind \in {"books", "authors"} :
                        ServeHtml(V2_delete(
                            V2_Submit(b, V2_WithToken(<<>>, <<t, None>>), <<>>), kind, 1))

SpecV2Tabs == InitV2Forms /\ [][NextV2Tabs]_vars

(***************************************************************************)
(* C18                                                                     *)
(***************************************************************************)
\* the request being served submits a form with a token that was embedded
\* in a form rendered for the same session
C18_FormOfSession ==
    /\ C17_IsPost
    /\ C17_Carried(resp'.req) \in session[resp'.req.browser].forms

\* csrf_protect lets the request through to the view function
C18_Passes ==
    ~C17_Refused(session[resp'.req.browser], session'[resp'.req.browser], resp')

C18_LastFormPasses ==
    [][C18_FormOfSession
           => (C18_Passes <=> C17_Carried(resp'.req) = session[resp'.req.browser].csrf_token)]_vars

\* a form of the session was refused because another page was rendered after
\* it
C18_OlderFormRefused ==
    /\ resp.req.op \in {"book_create", "genre_update", "book_delete", "author_delete"}
    /\ resp.req.method = "POST"
    /\ C17_Carried(resp.req) \in session[resp.req.browser].forms
    /\ C17_Carried(resp.req) # session[resp.req.browser].csrf_token
    /\ resp.status = 302 /\ resp.body = [location |-> "home"]
    /\ session[resp.req.browser].flashes # <<>>
    /\ session[resp.req.browser].flashes[Len(session[resp.req.browser].flashes)]
           = "Invalid CSRF token"

(***************************************************************************)
(* Mansour_Microservcies_1.py: signed messages between services            *)
(*                                                                         *)
(* A Message is a record of its six fields; a missing signature is None.   *)
(* A nonce is a number that stands for one value of secrets.token_hex(8).  *)
(* seen_nonces[S] lists the entries of S's dictionary in insertion order,  *)
(* the order in which Python iterates over it.                             *)
(***************************************************************************)
allowed_skew == 60

MaxSeenNonces == 1000

Services == {"UI_MS", "Controller_MS"}

\* generate_secret_key(): one key for each service, and a key that belongs
\* to none of them
SecretKey(name) == <<"key", name>>

OutsiderKey == SecretKey("outsider")

\* Message.to_wire: the five signed fields in canonical form (keys sorted,
\* no blanks); the signature is not part of it
to_wire(m) == [k \in {"sender", "recipient", "payload", "ts", "nonce"} |-> m[k]]

\* HMAC-SHA256 as a keyed digest without collisions
HmacDigest(key, message) == [key |-> key, message |-> message]

b64encode(mac) == <<"b64", mac>>

\* base64.b64decode: the bytes, or <<>> for text that encodes none
b64decode(text) == IF Len(text) = 2 /\ text[1] = "b64" THEN text[2] ELSE <<>>

hmac_sign(key, message) == b64encode(HmacDigest(key, message))

\* a verification that accepts every well-formed signature
hmac_verify_any(key, message, signature_b64) ==
    b64decode(signature_b64) # <<>>

hmac_verify(key, message, signature_b64) ==
    /\ b64decode(signature_b64) # <<>>
    /\ HmacDigest(key, message) = b64decode(signature_b64)

\* Message.sign_with
sign_with(m, key) == [m EXCEPT !.signature = hmac_sign(key, to_wire(m))]

\* Message.verify_signature
verify_signature(m, key) ==
    IF m.signature = None THEN FALSE ELSE hmac_verify(key, to_wire(m), m.signature)

\* a distance that counts the past only
AbsOfPast(x) == x

\* abs()
Abs(x) == IF x < 0 THEN -x ELSE x

\* the nonces in a replay store
Seen(store) == {store[i].nonce : i \in 1..Len(store)}

\* the key that was inserted first, whatever its timestamp
OldestInserted(store) == 1

\* min(self.seen_nonces, key=self.seen_nonces.get): the first key, in
\* insertion order, with the smallest timestamp
Oldest(store) ==
    LET least == CHOOSE t \in {store[i].ts : i \in 1..Len(store)} :
                     \A i \in 1..Len(store) : t <= store[i].ts
    IN  CHOOSE i \in 1..Len(store) :
            store[i].ts = least /\ \A j \in 1..(i - 1) : store[j].ts # least

\* del self.seen_nonces[key] for the key at position i
Without(store, i) == SubSeq(store, 1, i - 1) \o SubSeq(store, i + 1, Len(store))

\* a verification that records the nonce of a message before it checks it
verify_incoming_recording(store, m, expected_sender_key, now) ==
    LET added == Append(store, [nonce |-> m.nonce, ts |-> m.ts])
    IN  IF ~verify_signature(m, expected_sender_key)
        THEN [result |-> <<FALSE, "invalid signature">>, store |-> added]
        ELSE IF Abs(now - m.ts) > allowed_skew
        THEN [result |-> <<FALSE, "stale or future timestamp">>, store |-> added]
        ELSE IF m.nonce \in Seen(store)
        THEN [result |-> <<FALSE, "replay detected (nonce already seen)">>,
              store |-> store]
        ELSE [result |-> <<TRUE, "ok">>,
              store |-> IF Len(added) > MaxSeenNonces
                        THEN Without(added, Oldest(added)) ELSE added]

\* Service.verify_incoming: the returned pair and the replay store after it
verify_incoming(store, m, expected_sender_key, now) ==
    IF ~verify_signature(m, expected_sender_key)
    THEN [result |-> <<FALSE, "invalid signature">>, store |-> store]
    ELSE IF Abs(now - m.ts) > allowed_skew
    THEN [result |-> <<FALSE, "stale or future timestamp">>, store |-> store]
    ELSE IF m.nonce \in Seen(store)
    THEN [result |-> <<FALSE, "replay detected (nonce already seen)">>, store |-> store]
    ELSE LET added == Append(store, [nonce |-> m.nonce, ts |-> m.ts])
         IN  [result |-> <<TRUE, "ok">>,
              store |-> IF Len(added) > MaxSeenNonces
                        THEN Without(added, Oldest(added)) ELSE added]

\* Message(sender, recipient, payload, ts, nonce): a new, unsigned message
NewMessage(sender, recipient, payload, ts, nonce) ==
    /\ inflight' = [sender |-> sender, recipient |-> recipient, payload |-> payload,
                    ts |-> ts, nonce |-> nonce, signature |-> None]
    /\ signedAs' = <<>>
    /\ UNCHANGED <<clock, seen_nonces, accepted, verdict, run>>

\* msg.sign_with(key)
SignMessage(key) ==
    /\ inflight # <<>>
    /\ inflight' = sign_with(inflight, key)
    /\ signedAs' = [key |-> key, message |-> sign_with(inflight, key)]
    /\ UNCHANGED <<clock, seen_nonces, accepted, verdict, run>>

\* a field of the message object is assigned after it was signed
ChangeField(field, value) ==
    /\ inflight # <<>>
    /\ signedAs # <<>>
    /\ inflight = signedAs.message
    /\ inflight[field] # value
    /\ inflight' = [inflight EXCEPT ![field] = value]
    /\ UNCHANGED <<clock, seen_nonces, signedAs, accepted, verdict, run>>

\* a service that refuses every message addressed to another service
VerifyIncomingAddressed(S, expected_sender_key) ==
    LET out == IF inflight.recipient = S
               THEN verify_incoming(seen_nonces[S], inflight, expected_sender_key, clock)
               ELSE [result |-> <<FALSE, "wrong recipient">>, store |-> seen_nonces[S]]
    IN  /\ inflight # <<>>
        /\ verdict' = [call |-> verdict.call + 1, service |-> S,
                       key |-> expected_sender_key, result |-> out.result]
        /\ seen_nonces' = [seen_nonces EXCEPT ![S] = out.store]
        /\ accepted' = IF out.result[1]
                       THEN [accepted EXCEPT ![S] = Append(@, inflight.nonce)]
                       ELSE accepted
        /\ UNCHANGED <<clock, inflight, signedAs, run>>

\* S.verify_incoming(msg, expected_sender_key)
VerifyIncoming(S, expected_sender_key) ==
    LET out == verify_incoming(seen_nonces[S], inflight, expected_sender_key, clock)
    IN  /\ inflight # <<>>
        /\ verdict' = [call |-> verdict.call + 1, service |-> S,
                       key |-> expected_sender_key, result |-> out.result]
        /\ seen_nonces' = [seen_nonces EXCEPT ![S] = out.store]
        /\ accepted' = IF out.result[1]
                       THEN [accepted EXCEPT ![S] = Append(@, inflight.nonce)]
                       ELSE accepted
        /\ UNCHANGED <<clock, inflight, signedAs, run>>

\* a second passes
Tick ==
    /\ clock' = clock + 1
    /\ UNCHANGED <<seen_nonces, inflight, signedAs, accepted, verdict, run>>

\* the web application and the date parsers are not running
OnlySimulation ==
    /\ variant = "none"
    /\ genres = <<>> /\ authors = <<>> /\ books = <<>>
    /\ resp = NoResponse
    /\ hist = NoHistory
    /\ nreq = 0
    /\ libc = "glibc"
    /\ ParsersIdle
    /\ session = NoSessions
    /\ pending = <<>>

NoVerdict == [call |-> 0, service |-> "none", key |-> <<>>, result |-> <<FALSE, "none">>]

(***************************************************************************)
(* The simulation: replayed messages                                       *)
(***************************************************************************)
ReplayCalls == 3

MaxClock == 1001

\* a replay store after MaxSeenNonces accepted messages, all of timestamp ts
FullStore(ts) == [i \in 1..MaxSeenNonces |-> [nonce |-> i, ts |-> ts]]

RequestDelivery == [action |-> "request_delivery"]

InitReplay ==
    /\ clock = 1000
    /\ \/ /\ seen_nonces = [S \in Services |-> <<>>]
          /\ accepted = [S \in Services |-> <<>>]
       \/ /\ seen_nonces = [S \in Services |->
                                IF S = "UI_MS" THEN FullStore(clock) ELSE <<>>]
          /\ accepted = [S \in Services |->
                             IF S = "UI_MS" THEN [i \in 1..MaxSeenNonces |-> i] ELSE <<>>]
    /\ inflight = <<>>
    /\ signedAs = <<>>
    /\ verdict = NoVerdict
    /\ run = <<>>
    /\ OnlySimulation

NextReplay ==
    \/ /\ verdict.call < ReplayCalls
       /\ \E S \in Services : VerifyIncoming(S, SecretKey("Sender_MS"))
       /\ UNCHANGED <<webVars, dateVars>>
    \/ /\ \E ts \in {clock - allowed_skew, clock}, nonce \in {1, MaxSeenNonces + 1} :
             NewMessage("Sender_MS", "UI_MS", RequestDelivery, ts, nonce)
       /\ UNCHANGED <<webVars, dateVars>>
    \/ /\ SignMessage(SecretKey("Sender_MS"))
       /\ UNCHANGED <<webVars, dateVars>>
    \/ /\ clock < MaxClock
       /\ Tick
       /\ UNCHANGED <<webVars, dateVars>>

SpecReplay == InitReplay /\ [][NextReplay]_vars

(***************************************************************************)
(* C19                                                                     *)
(***************************************************************************)
\* the nonces service S has accepted so far
C19_Accepted(S) == {accepted[S][i] : i \in 1..Len(accepted[S])}

\* verify_incoming is called on a message whose nonce the called service
\* has accepted before
C19_SameNonce ==
    /\ verdict'.call = verdict.call + 1
    /\ inflight.nonce \in C19_Accepted(verdict'.service)

\* C19: once a service has accepted a message, every later call of its
\* verify_incoming with a message carrying the same nonce is rejected,
\* however many messages the service accepted in between and whatever their
\* timestamps; the rejection is 'replay detected' unless the signature or
\* the timestamp of the later message is refused first.
C19_ReplayDetected ==
    [][C19_SameNonce
           => /\ ~verdict'.result[1]
              /\ verdict'.result[2] \in {"replay detected (nonce already seen)",
                                         "invalid signature", "stale or future timestamp"}
              /\ (/\ verify_signature(inflight, verdict'.key)
                  /\ Abs(clock - inflight.ts) <= allowed_skew)
                     => verdict'.result[2] = "replay detected (nonce already seen)"]_vars

\* what the code does: a nonce is refused while it is in the store, which
\* holds every accepted nonce until the service has accepted more than
\* MaxSeenNonces of them
C19_RefusedWhileStored ==
    [][(/\ C19_SameNonce
        /\ \/ inflight.nonce \in Seen(seen_nonces[verdict'.service])
           \/ Len(accepted[verdict'.service]) <= MaxSeenNonces)
           => ~verdict'.result[1]]_vars

\* a message was accepted and its nonce is not in the store: the store was
\* full and the message's timestamp the smallest
C19_AcceptedAndForgotten ==
    /\ verdict.result = <<TRUE, "ok">>
    /\ inflight.nonce \notin Seen(seen_nonces[verdict.service])

\* a nonce that was accepted before is accepted again
C19_AcceptedAgain ==
    /\ verdict.result = <<TRUE, "ok">>
    /\ \E i, j \in 1..Len(accepted[verdict.service]) :
           i < j /\ accepted[verdict.service][i] = accepted[verdict.service][j]

(***************************************************************************)
(* The simulation: signatures                                              *)
(***************************************************************************)
SignedCalls == 2

InitSigned ==
    /\ clock = 1000
    /\ seen_nonces = [S \in Services |-> <<>>]
    /\ accepted = [S \in Services |-> <<>>]
    /\ inflight = <<>>
    /\ signedAs = <<>>
    /\ verdict = NoVerdict
    /\ run = <<>>
    /\ OnlySimulation

\* the value a field is changed to after the message was signed
Changed(field) ==
    CASE field = "sender" -> "Controller_MS"
      [] field = "recipient" -> "Controller_MS"
      [] field = "payload" -> [action |-> "request_parcel_id"]
      [] field = "ts" -> clock - 1
      [] field = "nonce" -> 2
      [] field = "signature" -> <<"!">>

NextSigned ==
    \/ /\ verdict.call < SignedCalls
       /\ \E S \in Services, key \in {SecretKey("Sender_MS"), SecretKey("UI_MS")} :
             VerifyIncoming(S, key)
       /\ UNCHANGED <<webVars, dateVars>>
    \/ /\ \E ts \in {clock, clock - allowed_skew - 1} :
             NewMessage("Sender_MS", "UI_MS", RequestDelivery, ts, 1)
       /\ UNCHANGED <<webVars, dateVars>>
    \/ /\ \E key \in {SecretKey("Sender_MS"), SecretKey("UI_MS"), OutsiderKey} :
             SignMessage(key)
       /\ UNCHANGED <<webVars, dateVars>>
    \/ /\ \E field \in {"sender", "recipient", "payload", "ts", "nonce", "signature"} :
             ChangeField(field, Changed(field))
       /\ UNCHANGED <<webVars, dateVars>>

SpecSigned == InitSigned /\ [][NextSigned]_vars

(***************************************************************************)
(* C20                                                                     *)
(***************************************************************************)
\* the message carries the signature it was given when it was last signed
C20_SignatureKept ==
    /\ signedAs # <<>>
    /\ inflight.signature = signedAs.message.signature

\* the message carries no signature, or its signature was made with another
\* key than the expected one, or one of its five signed fields is not what
\* it was when the message was signed
C20_NotAuthentic ==
    \/ inflight.signature = None
    \/ C20_SignatureKept /\ signedAs.key # verdict'.key
    \/ /\ C20_SignatureKept
       /\ \E k \in {"sender", "recipient", "payload", "ts", "nonce"} :
              inflight[k] # signedAs.message[k]

\* the message was signed with the expected key and is as it was then
C20_Authentic ==
    /\ signedAs # <<>>
    /\ signedAs.key = verdict'.key
    /\ inflight = signedAs.message

\* C20: verify_incoming returns (False, 'invalid signature') and records no
\* nonce for every message that carries no signature, whose signature was
\* made with a key other than expected_sender_key, or whose sender,
\* recipient, payload, ts or nonce differs from the value it had when the
\* message was signed; a message signed with the expected key and unchanged
\* since passes the signature check.
C20_SignatureChecked ==
    [][verdict'.call = verdict.call + 1
           => /\ C20_NotAuthentic
                     => /\ verdict'.result = <<FALSE, "invalid signature">>
                        /\ seen_nonces' = seen_nonces
              /\ C20_Authentic => verdict'.result[2] # "invalid signature"]_vars

\* a message signed with the expected key was refused because one of its
\* signed fields was changed afterwards
C20_ChangedRefused ==
    /\ verdict.result = <<FALSE, "invalid signature">>
    /\ signedAs # <<>>
    /\ signedAs.key = verdict.key
    /\ inflight.signature = signedAs.message.signature
    /\ inflight # signedAs.message
    /\ seen_nonces = [S \in Services |-> <<>>]

\* a message signed with another key was refused
C20_OtherKeyRefused ==
    /\ verdict.result = <<FALSE, "invalid signature">>
    /\ signedAs # <<>>
    /\ signedAs.key # verdict.key
    /\ inflight = signedAs.message

\* an unchanged message signed with the expected key was accepted
C20_AuthenticAccepted ==
    /\ verdict.result = <<TRUE, "ok">>
    /\ signedAs # <<>>
    /\ signedAs.key = verdict.key
    /\ inflight = signedAs.message

(***************************************************************************)
(* The simulation: freshness and the order of the three checks             *)
(***************************************************************************)
FreshCalls == 2

\* the timestamps a message is given: at the edge of the window of
\* allowed_skew seconds, one second beyond it, and the present
FreshStamps ==
    {clock - allowed_skew - 1, clock - allowed_skew, clock,
     clock + allowed_skew, clock + allowed_skew + 1}

NextFresh ==
    \/ /\ verdict.call < FreshCalls
       /\ \E S \in Services : VerifyIncoming(S, SecretKey("Sender_MS"))
       /\ UNCHANGED <<webVars, dateVars>>
    \/ /\ \E ts \in FreshStamps, nonce \in {1, 2} :
             NewMessage("Sender_MS", "UI_MS", RequestDelivery, ts, nonce)
       /\ UNCHANGED <<webVars, dateVars>>
    \/ /\ \E key \in {SecretKey("Sender_MS"), OutsiderKey} : SignMessage(key)
       /\ UNCHANGED <<webVars, dateVars>>

SpecFresh == InitSigned /\ [][NextFresh]_vars

(***************************************************************************)
(* C21                                                                     *)
(***************************************************************************)
\* the message is as it was when it was signed with the key the verifier
\* expects
C21_ValidlySigned ==
    /\ signedAs # <<>>
    /\ signedAs.key = verdict'.key
    /\ inflight = signedAs.message

\* seconds between the verifier's time and the message's ts, either way
C21_Distance ==
    IF clock >= inflight.ts THEN clock - inflight.ts ELSE inflight.ts - clock

\* the verifying service holds the message's nonce
C21_NonceSeen ==
    \E i \in 1..Len(seen_nonces[verdict'.service]) :
        seen_nonces[verdict'.service][i].nonce = inflight.nonce

\* C21: verify_incoming rejects every validly signed message whose ts differs
\* from the verifier's time by more than 60 seconds, in the past or in the
\* future, and accepts a difference of exactly 60; the checks run in the
\* order signature, freshness, nonce, so the reason returned is that of the
\* first check that fails.
C21_FreshnessInOrder ==
    [][verdict'.call = verdict.call + 1
           => /\ (~C21_ValidlySigned)
                     => verdict'.result = <<FALSE, "invalid signature">>
              /\ (C21_ValidlySigned /\ C21_Distance > 60)
                     => verdict'.result = <<FALSE, "stale or future timestamp">>
              /\ (C21_ValidlySigned /\ C21_Distance <= 60 /\ C21_NonceSeen)
                     => verdict'.result =
                            <<FALSE, "replay detected (nonce already seen)">>
              /\ (C21_ValidlySigned /\ C21_Distance <= 60 /\ ~C21_NonceSeen)
                     => verdict'.result = <<TRUE, "ok">>]_vars

\* a validly signed message from 61 seconds in the future, whose nonce the
\* service already holds, was refused for its timestamp
C21_FutureRefusedBeforeNonce ==
    /\ verdict.result = <<FALSE, "stale or future timestamp">>
    /\ signedAs # <<>>
    /\ signedAs.key = verdict.key
    /\ inflight = signedAs.message
    /\ inflight.ts = clock + 61
    /\ \E i \in 1..Len(seen_nonces[verdict.service]) :
           seen_nonces[verdict.service][i].nonce = inflight.nonce

\* a validly signed message from 61 seconds in the past was refused
C21_PastRefused ==
    /\ verdict.result = <<FALSE, "stale or future timestamp">>
    /\ signedAs # <<>>
    /\ signedAs.key = verdict.key
    /\ inflight = signedAs.message
    /\ inflight.ts = clock - 61

\* validly signed messages exactly 60 seconds old and exactly 60 seconds
\* ahead were both accepted
C21_EdgeAccepted ==
    /\ verdict.result = <<TRUE, "ok">>
    /\ \E S \in Services :
           /\ \E i \in 1..Len(seen_nonces[S]) : seen_nonces[S][i].ts = clock - 60
           /\ \E i \in 1..Len(seen_nonces[S]) : seen_nonces[S][i].ts = clock + 60

\* a stale message signed with another key was refused for its signature
C21_SignatureBeforeFreshness ==
    /\ verdict.result = <<FALSE, "invalid signature">>
    /\ signedAs # <<>>
    /\ signedAs.key # verdict.key
    /\ inflight.ts = clock - 61

(***************************************************************************)
(* The simulation: one message presented to several services               *)
(***************************************************************************)
AddressedCalls == 3

NextAddressed ==
    \/ /\ verdict.call < AddressedCalls
       /\ \E S \in Services : VerifyIncoming(S, SecretKey("Sender_MS"))
       /\ UNCHANGED <<webVars, dateVars>>
    \/ /\ \E recipient \in Services \cup {"Storage_MS"}, nonce \in {1, 2} :
             NewMessage("Sender_MS", recipient, RequestDelivery, clock, nonce)
       /\ UNCHANGED <<webVars, dateVars>>
    \/ /\ \E key \in {SecretKey("Sender_MS"), OutsiderKey} : SignMessage(key)
       /\ UNCHANGED <<webVars, dateVars>>

SpecAddressed == InitSigned /\ [][NextAddressed]_vars

(***************************************************************************)
(* C28                                                                     *)
(***************************************************************************)
\* the message is as it was signed with the expected key, and its ts is
\* within allowed_skew of the verifier's time
C28_SignedAndFresh ==
    /\ signedAs # <<>>
    /\ signedAs.key = verdict'.key
    /\ inflight = signedAs.message
    /\ inflight.ts - clock <= allowed_skew
    /\ clock - inflight.ts <= allowed_skew

\* the service that is called holds the nonce of the message
C28_HeldBy(S) ==
    \E i \in 1..Len(seen_nonces[S]) : seen_nonces[S][i].nonce = inflight.nonce

\* C28: verify_incoming never compares msg.recipient with the name of the
\* verifying service: a validly signed, fresh message whose nonce service S
\* has not seen is accepted by S whatever its recipient, and since nonces
\* are recorded per service the same message is accepted once by each
\* service it is presented to (a call changes no other service's nonces).
C28_RecipientNotChecked ==
    [][verdict'.call = verdict.call + 1
           => /\ (C28_SignedAndFresh /\ ~C28_HeldBy(verdict'.service))
                     => /\ verdict'.result = <<TRUE, "ok">>
                        /\ \E i \in 1..Len(seen_nonces'[verdict'.service]) :
                               seen_nonces'[verdict'.service][i].nonce = inflight.nonce
              /\ (C28_SignedAndFresh /\ C28_HeldBy(verdict'.service))
                     => verdict'.result[1] = FALSE
              /\ \A S \in Services \ {verdict'.service} :
                     seen_nonces'[S] = seen_nonces[S]]_vars

\* a message addressed to Storage_MS was accepted by UI_MS and by
\* Controller_MS, once each
C28_AcceptedByEach ==
    /\ verdict.result = <<TRUE, "ok">>
    /\ inflight.recipient = "Storage_MS"
    /\ \A S \in Services : accepted[S] = <<inflight.nonce>>
    /\ verdict.call = 2

\* presented a second time to the service that had accepted it, the message
\* was refused
C28_SecondTimeRefused ==
    /\ verdict.result = <<FALSE, "replay detected (nonce already seen)">>
    /\ inflight.recipient = "Controller_MS"
    /\ verdict.service = "UI_MS"
    /\ \A S \in Services : accepted[S] = <<inflight.nonce>>

(***************************************************************************)
(* C29                                                                     *)
(***************************************************************************)
\* C29: a call of verify_incoming that rejects a message (invalid signature,
\* stale or future timestamp, or replayed nonce) leaves the service's
\* seen_nonces unchanged; only an accepting call adds the message's nonce.
C29_RejectionRecordsNothing ==
    [][verdict'.call = verdict.call + 1
           => /\ (~verdict'.result[1]) => seen_nonces' = seen_nonces
              /\ verdict'.result[1]
                     => seen_nonces' =
                            [seen_nonces EXCEPT ![verdict'.service] =
                                 Append(@, [nonce |-> inflight.nonce,
                                            ts |-> inflight.ts])]]_vars

\* a stale message was refused by a service that holds one nonce, another
\* than the message's, and holds nothing else afterwards
C29_StaleLeftNoNonce ==
    /\ verdict.result = <<FALSE, "stale or future timestamp">>
    /\ Len(seen_nonces[verdict.service]) = 1
    /\ seen_nonces[verdict.service][1].nonce # inflight.nonce

\* a message with a wrong signature was refused and no service holds a nonce
C29_UnsignedLeftNoNonce ==
    /\ verdict.result = <<FALSE, "invalid signature">>
    /\ verdict.call = 2
    /\ \A S \in Services : seen_nonces[S] = <<>>

\* a replayed message was refused and its nonce is held once
C29_ReplayLeftOneNonce ==
    /\ verdict.result = <<FALSE, "replay detected (nonce already seen)">>
    /\ seen_nonces[verdict.service] = <<[nonce |-> inflight.nonce, ts |-> inflight.ts]>>

(***************************************************************************)
(* The simulation: the replay store at its limit                           *)
(***************************************************************************)
EvictCalls == 2

\* a replay store after MaxSeenNonces accepted messages whose timestamps are
\* not in the order of their arrival: the first is of the present, the
\* others are one and two seconds old in turn
MixedStore ==
    [i \in 1..MaxSeenNonces |->
        [nonce |-> i, ts |-> IF i = 1 THEN clock ELSE clock - 1 - (i % 2)]]

InitEvict ==
    /\ clock = 1000
    /\ \E full \in {{}, {"UI_MS"}} :
          /\ seen_nonces = [S \in Services |-> IF S \in full THEN MixedStore ELSE <<>>]
          /\ accepted = [S \in Services |->
                             IF S \in full THEN [i \in 1..MaxSeenNonces |-> i] ELSE <<>>]
    /\ inflight = <<>>
    /\ signedAs = <<>>
    /\ verdict = NoVerdict
    /\ run = <<>>
    /\ OnlySimulation

NextEvict ==
    \/ /\ verdict.call < EvictCalls
       /\ \E S \in Services : VerifyIncoming(S, SecretKey("Sender_MS"))
       /\ UNCHANGED <<webVars, dateVars>>
    \/ /\ \E ts \in {clock - allowed_skew, clock - 2, clock},
             nonce \in {1, MaxSeenNonces + 1, MaxSeenNonces + 2} :
             NewMessage("Sender_MS", "UI_MS", RequestDelivery, ts, nonce)
       /\ UNCHANGED <<webVars, dateVars>>
    \/ /\ SignMessage(SecretKey("Sender_MS"))
       /\ UNCHANGED <<webVars, dateVars>>

SpecEvict == InitEvict /\ [][NextEvict]_vars

(***************************************************************************)
(* C30                                                                     *)
(***************************************************************************)
\* entry i has the smallest ts of the entries of s and is the earliest
\* inserted among those of that ts
C30_EarliestOfSmallest(s, i) ==
    /\ \A j \in 1..(i - 1) : s[j].ts # s[i].ts
    /\ \A j \in 1..Len(s) : s[i].ts <= s[j].ts

\* C30: after every return of verify_incoming the service's seen_nonces holds
\* at most 1000 entries; when an accepted message makes it 1001, exactly one
\* entry is removed, the one with the smallest recorded ts (the earliest
\* inserted among equal ts), which may be the nonce that was just added.
C30_StoreBounded ==
    [][verdict'.call = verdict.call + 1
           => /\ \A S \in Services : Len(seen_nonces'[S]) <= 1000
              /\ (verdict'.result[1] /\ Len(seen_nonces[verdict'.service]) = 1000)
                     => LET added == Append(seen_nonces[verdict'.service],
                                            [nonce |-> inflight.nonce,
                                             ts |-> inflight.ts])
                        IN  \E i \in 1..1001 :
                                /\ C30_EarliestOfSmallest(added, i)
                                /\ seen_nonces'[verdict'.service] =
                                       [k \in 1..1000 |->
                                            IF k < i THEN added[k] ELSE added[k + 1]]
              /\ (verdict'.result[1] /\ Len(seen_nonces[verdict'.service]) < 1000)
                     => seen_nonces'[verdict'.service] =
                            Append(seen_nonces[verdict'.service],
                                   [nonce |-> inflight.nonce, ts |-> inflight.ts])]_vars

\* the 1001st nonce was accepted with a ts above the smallest, and the
\* nonce that went is the third inserted: the first of the oldest ts
C30_EarliestOfOldestRemoved ==
    /\ verdict.result = <<TRUE, "ok">>
    /\ verdict.call = 1
    /\ Len(seen_nonces[verdict.service]) = 1000
    /\ seen_nonces[verdict.service][1].nonce = 1
    /\ seen_nonces[verdict.service][2].nonce = 2
    /\ seen_nonces[verdict.service][3].nonce = 4
    /\ seen_nonces[verdict.service][1000].nonce = inflight.nonce

\* the 1001st nonce was accepted with the smallest ts of all and is itself
\* the one that went
C30_AddedRemoved ==
    /\ verdict.result = <<TRUE, "ok">>
    /\ verdict.call = 1
    /\ inflight.ts = clock - allowed_skew
    /\ seen_nonces[verdict.service] = MixedStore

\* the 1001st nonce was accepted with a ts equal to the smallest stored,
\* and the one that went is the stored one, inserted earlier
C30_EqualTsEarlierRemoved ==
    /\ verdict.result = <<TRUE, "ok">>
    /\ verdict.call = 1
    /\ inflight.ts = clock - 2
    /\ Len(seen_nonces[verdict.service]) = 1000
    /\ seen_nonces[verdict.service][3].nonce = 4
    /\ seen_nonces[verdict.service][1000].nonce = inflight.nonce

(***************************************************************************)
(* Mansour_Microservcies_1.py: the delivery flow                           *)
(*                                                                         *)
(* run holds the call in progress as the list of the statements still to   *)
(* be executed (prog), the local variables of the flow, Car_MS's registry, *)
(* the tables ids (Database_2), deliveries (Database_1) and logs           *)
(* (Database_3) as the lists of their rows in the order of their row ids,  *)
(* the exception that ended the program, and, as history, the trace of     *)
(* the verifications, insertions, returns and exceptions so far.           *)
(* No statement of the file catches an exception: the first one raised     *)
(* ends the program.                                                       *)
(***************************************************************************)
AllServices ==
    {"Sender_MS", "UI_MS", "Controller_MS", "IDGen_MS", "Storage_MS", "Log_MS", "Car_MS"}

\* generate_fernet_key(): one key for each service that encrypts
FernetKey(name) == <<"fernet", name>>

\* the name under which a service had its keys in an earlier run of the
\* program: run_simulation generates new keys each time
EarlierRun(name) == name \o " (earlier run)"

\* Fernet as a cipher that only its key opens
encrypt(fernet, plaintext) == [fernet |-> fernet, plaintext |-> plaintext]

\* Service.decrypt: the plaintext, or InvalidToken
decrypt(fernet, token) ==
    IF token.fernet = fernet
    THEN [ok |-> TRUE, plaintext |-> token.plaintext]
    ELSE [ok |-> FALSE, plaintext |-> ""]

\* the row that StorageMS.store_id inserts into ids
store_id(owner, id_type, id_value, now) ==
    LET token == encrypt(FernetKey(owner), id_value)
    IN  [id_type |-> id_type, id_encrypted |-> token,
         mac |-> hmac_sign(SecretKey(owner), token), ts |-> now]

\* StorageMS.retrieve_latest_id: None (found is FALSE), the id, or the
\* message of the RuntimeError
retrieve_latest_id(ids, id_type) ==
    LET rows == {i \in 1..Len(ids) : ids[i].id_type = id_type}
        r == ids[CHOOSE i \in rows : \A j \in rows : j <= i]
        plain == decrypt(FernetKey("Storage_MS"), r.id_encrypted)
    IN  IF rows = {}
        THEN [found |-> FALSE, value |-> "", error |-> ""]
        ELSE IF ~hmac_verify(SecretKey("Storage_MS"), r.id_encrypted, r.mac)
        THEN [found |-> FALSE, value |-> "",
              error |-> "Integrity check failed for stored id"]
        ELSE IF ~plain.ok
        THEN [found |-> FALSE, value |-> "",
              error |-> "Decryption failed (bad key or corrupted token)"]
        ELSE [found |-> TRUE, value |-> plain.plaintext, error |-> ""]

\* the row that StorageMS.store_delivery inserts into deliveries
store_delivery(owner, delivery_obj, now) ==
    LET token == encrypt(FernetKey(owner), delivery_obj)
    IN  [delivery_json |-> token, mac |-> hmac_sign(SecretKey(owner), token), ts |-> now]

\* the row that LogMS.store_log inserts into logs
store_log(owner, service, action, details, now) ==
    LET token == encrypt(FernetKey(owner),
                         [service |-> service, action |-> action, details |-> details])
    IN  [service |-> service, action |-> action, details_encrypted |-> token,
         mac |-> hmac_sign(SecretKey(owner), token), ts |-> now]

(***************************************************************************)
(* The statements of the flow.  A message statement stands for: build the  *)
(* Message with ts = now_ts() and a new nonce, sign it with the key of its *)
(* sender, have its recipient call verify_incoming with the sender's key   *)
(* as expected key, and raise when that returns False; every exchange of   *)
(* the file has this shape.  Text starting with $ in a payload stands for  *)
(* the value of that local variable.                                       *)
(***************************************************************************)
Msg(fn, sender, recipient, payload, error) ==
    [do |-> "msg", fn |-> fn, sender |-> sender, recipient |-> recipient,
     payload |-> payload, error |-> error]

Do(fn, do, arg) == [do |-> do, fn |-> fn, arg |-> arg]

\* UIMS.forward_request_to_controller
forward_request_to_controller ==
    <<Msg("forward_request_to_controller", "UI_MS", "Controller_MS",
          [action |-> "request_delivery"], "Controller rejected UI request"),
      Do("forward_request_to_controller", "return", "forwarded")>>

\* a request_parcel_id that logs as soon as the id is stored
request_parcel_id_logging_early ==
    <<Msg("request_parcel_id", "Controller_MS", "IDGen_MS",
          [action |-> "request_parcel_id"], "IDGen rejected controller request"),
      Do("request_parcel_id", "generate_parcel_id", ""),
      Msg("request_parcel_id", "IDGen_MS", "Controller_MS",
          [parcel_id |-> "$parcel_id"], "Invalid reply from IDGen"),
      Msg("request_parcel_id", "Controller_MS", "Storage_MS",
          [action |-> "store_parcel_id", parcel_id |-> "$parcel_id"],
          "Storage rejected controller store request"),
      Do("request_parcel_id", "store_id", "parcel"),
      Do("request_parcel_id", "store_log", "parcel_id_generated"),
      Msg("request_parcel_id", "Storage_MS", "IDGen_MS",
          [ack |-> "$ack"], "IDGen rejected storage ack"),
      Msg("request_parcel_id", "IDGen_MS", "Controller_MS",
          [ack |-> "parcel_id_received"], "Controller failed to verify IDGen ACK"),
      Do("request_parcel_id", "return", "$parcel_id")>>

\* ControllerMS.request_parcel_id
request_parcel_id ==
    <<Msg("request_parcel_id", "Controller_MS", "IDGen_MS",
          [action |-> "request_parcel_id"], "IDGen rejected controller request"),
      Do("request_parcel_id", "generate_parcel_id", ""),
      Msg("request_parcel_id", "IDGen_MS", "Controller_MS",
          [parcel_id |-> "$parcel_id"], "Invalid reply from IDGen"),
      Msg("request_parcel_id", "Controller_MS", "Storage_MS",
          [action |-> "store_parcel_id", parcel_id |-> "$parcel_id"],
          "Storage rejected controller store request"),
      Do("request_parcel_id", "store_id", "parcel"),
      Msg("request_parcel_id", "Storage_MS", "IDGen_MS",
          [ack |-> "$ack"], "IDGen rejected storage ack"),
      Msg("request_parcel_id", "IDGen_MS", "Controller_MS",
          [ack |-> "parcel_id_received"], "Controller failed to verify IDGen ACK"),
      Do("request_parcel_id", "store_log", "parcel_id_generated"),
      Do("request_parcel_id", "return", "$parcel_id")>>

\* ControllerMS.request_car_id_and_check
request_car_id_and_check ==
    <<Msg("request_car_id_and_check", "Controller_MS", "Car_MS",
          [action |-> "request_car_id"], "CarMS rejected request"),
      Do("request_car_id_and_check", "select_car", ""),
      Do("request_car_id_and_check", "check_car", "CarMS reports car invalid"),
      Msg("request_car_id_and_check", "Car_MS", "Storage_MS",
          [action |-> "share_car_id", car_id |-> "$car_id"],
          "Storage rejected CarMS share"),
      Do("request_car_id_and_check", "store_id", "car"),
      Msg("request_car_id_and_check", "Storage_MS", "Car_MS",
          [ack |-> "$ack"], "CarMS rejected storage ack"),
      Msg("request_car_id_and_check", "Car_MS", "Controller_MS",
          [ack |-> "car_stored"], "Controller rejected CarMS ack"),
      Do("request_car_id_and_check", "store_log", "car_id_recorded"),
      Do("request_car_id_and_check", "return", "$car_id")>>

\* an assign_delivery that does not look into the storage
assign_delivery_unchecked ==
    <<Do("assign_delivery", "store_delivery", "assigned"),
      Do("assign_delivery", "store_log", "delivery_assigned"),
      Do("assign_delivery", "return", "$delivery")>>

\* ControllerMS.assign_delivery(parcel_id, car_id)
assign_delivery ==
    <<Do("assign_delivery", "require_latest", "parcel"),
      Do("assign_delivery", "require_latest", "car"),
      Do("assign_delivery", "store_delivery", "assigned"),
      Do("assign_delivery", "store_log", "delivery_assigned"),
      Do("assign_delivery", "return", "$delivery")>>

\* a notify_car that writes no log record
notify_car_unlogged ==
    <<Msg("notify_car", "Controller_MS", "Car_MS",
          [action |-> "notify_delivery", delivery |-> "$delivery"],
          "CarMS rejected notification"),
      Msg("notify_car", "Car_MS", "Controller_MS",
          [ack |-> "notified"], "Controller failed to verify car ack"),
      Do("notify_car", "return", "")>>

\* ControllerMS.notify_car(carms, delivery)
notify_car ==
    <<Msg("notify_car", "Controller_MS", "Car_MS",
          [action |-> "notify_delivery", delivery |-> "$delivery"],
          "CarMS rejected notification"),
      Msg("notify_car", "Car_MS", "Controller_MS",
          [ack |-> "notified"], "Controller failed to verify car ack"),
      Do("notify_car", "store_log", "car_notified"),
      Do("notify_car", "return", "")>>

\* UIMS.notify_sender(sender_ms, delivery)
notify_sender(delivery) ==
    <<Msg("notify_sender", "UI_MS", "Sender_MS",
          [action |-> "delivery_notification", delivery |-> delivery],
          "Sender rejected UI notification"),
      Msg("notify_sender", "Sender_MS", "UI_MS",
          [ack |-> "sender_received"], "UI failed to verify sender ack"),
      Do("notify_sender", "return", "sender_notified")>>

\* ControllerMS.notify_ui_and_sender(ui_ms, sender_ms, delivery)
notify_ui_and_sender(delivery) ==
    <<Msg("notify_ui_and_sender", "Controller_MS", "UI_MS",
          [action |-> "notify_sender", delivery |-> delivery],
          "UI rejected notification")>>
    \o notify_sender(delivery)
    \o <<Msg("notify_ui_and_sender", "UI_MS", "Controller_MS",
             [ack |-> "ui_ack"], "Controller failed to verify UI ack"),
         Do("notify_ui_and_sender", "store_log", "ui_notified"),
         Do("notify_ui_and_sender", "return", "")>>

\* ControllerMS.handle_car_update(carms, update, ui_ms, sender_ms)
handle_car_update ==
    <<Msg("handle_car_update", "Car_MS", "Controller_MS",
          [action |-> "request_update"], "Controller rejected car request_update"),
      Msg("handle_car_update", "Controller_MS", "Car_MS",
          [ack |-> "update_ack"], "CarMS failed to verify controller ack"),
      Msg("handle_car_update", "Controller_MS", "Storage_MS",
          [action |-> "store_delivery_update", update |-> "$update"],
          "Storage rejected delivery update"),
      Do("handle_car_update", "store_delivery", "update"),
      Do("handle_car_update", "store_log", "delivery_update_stored")>>
    \o notify_ui_and_sender("$update")
    \o <<Do("handle_car_update", "return", "")>>

\* run_simulation, from the first message to the last call
run_simulation ==
    <<Msg("run_simulation", "Sender_MS", "UI_MS",
          [action |-> "request_delivery"], "assert ok, reason")>>
    \o forward_request_to_controller
    \o request_parcel_id
    \o request_car_id_and_check
    \o <<Do("run_simulation", "retrieve_latest_id", "parcel"),
         Do("run_simulation", "retrieve_latest_id", "car")>>
    \o assign_delivery
    \o notify_car
    \o notify_ui_and_sender("$delivery")
    \o <<Do("run_simulation", "make_update", "in_transit")>>
    \o handle_car_update
    \o <<Do("run_simulation", "return", "")>>

(***************************************************************************)
(* The delivery flow: executing the statements                             *)
(***************************************************************************)
FlowCalls == 3

\* values of "P-" + secrets.token_urlsafe(12) and "C-" + secrets.token_urlsafe(8)
ParcelIds == {"P-1", "P-2"}

CarIds == {"C-1", "C-2"}

NoError == [type |-> "", message |-> ""]

\* the exception a failed statement raises: the first verification of
\* run_simulation is an assert, all others raise RuntimeError
Error(message) ==
    [type |-> IF message = "assert ok, reason" THEN "AssertionError" ELSE "RuntimeError",
     message |-> message]

\* the value of a local variable named in a payload
Local(v) ==
    CASE v = "$parcel_id" -> run.parcel_id
      [] v = "$car_id" -> run.car_id
      [] v = "$delivery" -> run.delivery
      [] v = "$update" -> run.update
      [] v = "$ack" -> run.ack
      [] OTHER -> v

Payload(p) == [k \in DOMAIN p |-> Local(p[k])]

\* the details of each log record
LogDetails(action) ==
    CASE action = "parcel_id_generated" -> [parcel_id |-> "$parcel_id"]
      [] action = "car_id_recorded" -> [car_id |-> "$car_id"]
      [] action = "delivery_assigned" ->
             [parcel_id |-> "$parcel_id", car_id |-> "$car_id", store_ack |-> "$ack"]
      [] action = "car_notified" -> [car_id |-> "$car_id", parcel_id |-> "$parcel_id"]
      [] action = "ui_notified" -> [parcel_id |-> "$parcel_id"]
      [] action = "delivery_update_stored" -> [update |-> "$update"]

\* an entry of the trace, made by the statement that is being executed
Event(ev, what, ok) ==
    [call |-> run.call, fn |-> Head(run.prog).fn, ev |-> ev, what |-> what, ok |-> ok]

\* the statement to execute is of this kind
At(do) == run.prog # <<>> /\ Head(run.prog).do = do

\* raise: the program ends
Raised(r, message) ==
    [r EXCEPT !.prog = <<>>, !.raised = Error(message),
              !.trace = Append(@, Event("raise", message, FALSE))]

OnlyRun == UNCHANGED <<clock, seen_nonces, inflight, signedAs, accepted, verdict>>

\* a message is built, signed and verified.  Its nonce is new, or by chance
\* one the recipient has seen; between now_ts() at its creation and
\* now_ts() in verify_incoming no time passes, or more than allowed_skew
Exchange ==
    /\ At("msg")
    /\ LET step == Head(run.prog)
       IN  \E nonce \in {run.sent + 1} \cup Seen(seen_nonces[step.recipient]),
              late \in {0, allowed_skew + 1} :
               LET m == sign_with([sender |-> step.sender, recipient |-> step.recipient,
                                   payload |-> Payload(step.payload), ts |-> clock,
                                   nonce |-> nonce, signature |-> None],
                                  SecretKey(step.sender))
                   out == verify_incoming(seen_nonces[step.recipient], m,
                                          SecretKey(step.sender), clock + late)
                   verified == [run EXCEPT !.sent = @ + 1,
                                           !.trace = Append(@, Event("verify", step.recipient,
                                                                     out.result[1]))]
               IN  /\ clock' = clock + late
                   /\ seen_nonces' = [seen_nonces EXCEPT ![step.recipient] = out.store]
                   /\ run' = IF out.result[1]
                             THEN [verified EXCEPT !.prog = Tail(@)]
                             ELSE Raised(verified, step.error)
    /\ UNCHANGED <<inflight, signedAs, accepted, verdict>>

\* parcel_id = idgen.generate_parcel_id()
GenerateParcelId ==
    /\ At("generate_parcel_id")
    /\ \E id \in ParcelIds : run' = [run EXCEPT !.prog = Tail(@), !.parcel_id = id]
    /\ OnlyRun

\* CarMS selects a registered car; if none, one is created and registered
SelectCar ==
    /\ At("select_car")
    /\ \E id \in IF run.cars = {} THEN CarIds ELSE run.cars :
           run' = [run EXCEPT !.prog = Tail(@), !.car_id = id, !.cars = @ \cup {id}]
    /\ OnlyRun

\* check_ok = carms.check_car(car_id)
CheckCar ==
    /\ At("check_car")
    /\ run' = IF run.car_id \in run.cars
              THEN [run EXCEPT !.prog = Tail(@)]
              ELSE Raised(run, Head(run.prog).arg)
    /\ OnlyRun

\* ack = self.storage.store_id(id_type, id)
StoreId ==
    /\ At("store_id")
    /\ LET id_type == Head(run.prog).arg
           id_value == IF id_type = "parcel" THEN run.parcel_id ELSE run.car_id
       IN  run' = [run EXCEPT !.prog = Tail(@),
                              !.ids = Append(@, store_id("Storage_MS", id_type,
                                                         id_value, clock)),
                              !.ack = [status |-> "ok", stored_ts |-> clock,
                                       id_type |-> id_type],
                              !.trace = Append(@, Event("ids", id_type, TRUE))]
    /\ OnlyRun

\* storage.retrieve_latest_id(id_type), its result printed
RetrieveLatestId ==
    /\ At("retrieve_latest_id")
    /\ LET r == retrieve_latest_id(run.ids, Head(run.prog).arg)
       IN  run' = IF r.error # "" THEN Raised(run, r.error)
                  ELSE [run EXCEPT !.prog = Tail(@)]
    /\ OnlyRun

\* p = self.storage.retrieve_latest_id(id_type);
\* if p is None or p != the argument: raise RuntimeError
RequireLatest ==
    /\ At("require_latest")
    /\ LET id_type == Head(run.prog).arg
           r == retrieve_latest_id(run.ids, id_type)
           argument == IF id_type = "parcel" THEN run.parcel_id ELSE run.car_id
       IN  run' = IF r.error # "" THEN Raised(run, r.error)
                  ELSE IF ~r.found \/ r.value # argument
                  THEN Raised(run, IF id_type = "parcel"
                                   THEN "Parcel ID mismatch or none in storage"
                                   ELSE "Car ID mismatch or none in storage")
                  ELSE [run EXCEPT !.prog = Tail(@)]
    /\ OnlyRun

\* store_ack = self.storage.store_delivery(delivery) for the new delivery,
\* self.storage.store_delivery_update(update) for the update
StoreDelivery ==
    /\ At("store_delivery")
    /\ LET delivery == IF Head(run.prog).arg = "assigned"
                       THEN [parcel_id |-> run.parcel_id, car_id |-> run.car_id,
                             assigned_at |-> clock, status |-> "assigned"]
                       ELSE run.update
       IN  run' = [run EXCEPT !.prog = Tail(@),
                              !.delivery = IF Head(run.prog).arg = "assigned"
                                           THEN delivery ELSE @,
                              !.deliveries = Append(@, store_delivery("Storage_MS",
                                                                      delivery, clock)),
                              !.ack = [status |-> "ok", stored_ts |-> clock],
                              !.trace = Append(@, Event("deliveries",
                                                        Head(run.prog).arg, TRUE))]
    /\ OnlyRun

\* self.logms.store_log(self.name, action, details)
StoreLog ==
    /\ At("store_log")
    /\ LET action == Head(run.prog).arg
       IN  run' = [run EXCEPT !.prog = Tail(@),
                              !.logs = Append(@, store_log("Log_MS", "Controller_MS", action,
                                                           Payload(LogDetails(action)),
                                                           clock)),
                              !.trace = Append(@, Event("logs", action, TRUE))]
    /\ OnlyRun

\* update = {"parcel_id": parcel_id, "car_id": car_id, "status": "in_transit", ...}
MakeUpdate ==
    /\ At("make_update")
    /\ run' = [run EXCEPT !.prog = Tail(@),
                          !.update = [parcel_id |-> run.parcel_id, car_id |-> run.car_id,
                                      status |-> Head(run.prog).arg, ts |-> clock]]
    /\ OnlyRun

\* a method returns
Return ==
    /\ At("return")
    /\ run' = [run EXCEPT !.prog = Tail(@),
                          !.trace = Append(@, Event("return", Head(run.prog).arg, TRUE))]
    /\ OnlyRun

\* the program may go on: nothing is being executed and nothing was raised
Ready == run.prog = <<>> /\ run.raised = NoError /\ ~run.script

\* python Mansour_Microservcies_1.py: run_simulation() on new services
RunScript ==
    /\ Ready
    /\ run.call = 0
    /\ run' = [run EXCEPT !.prog = run_simulation, !.call = 1, !.script = TRUE]
    /\ OnlyRun

\* one of the methods of ControllerMS that fill the databases is called
CallMethod(method) ==
    /\ Ready
    /\ run.call < FlowCalls
    /\ run' = [run EXCEPT !.prog = method, !.call = @ + 1]
    /\ OnlyRun

\* controller.assign_delivery(parcel_id, car_id)
CallAssignDelivery(parcel_id, car_id) ==
    /\ Ready
    /\ run.call < FlowCalls
    /\ run' = [run EXCEPT !.prog = assign_delivery, !.call = @ + 1,
                          !.parcel_id = parcel_id, !.car_id = car_id]
    /\ OnlyRun

\* the rows an earlier run of the program has left in the database files
EarlierIds ==
    <<store_id(EarlierRun("Storage_MS"), "parcel", "P-1", 900),
      store_id(EarlierRun("Storage_MS"), "car", "C-1", 900)>>

EarlierDeliveries ==
    <<store_delivery(EarlierRun("Storage_MS"),
                     [parcel_id |-> "P-1", car_id |-> "C-1", assigned_at |-> 900,
                      status |-> "assigned"], 900),
      store_delivery(EarlierRun("Storage_MS"),
                     [parcel_id |-> "P-1", car_id |-> "C-1", status |-> "in_transit",
                      ts |-> 900], 900)>>

EarlierLogs ==
    [i \in 1..7 |->
        LET action == <<"parcel_id_generated", "car_id_recorded", "delivery_assigned",
                        "car_notified", "ui_notified", "delivery_update_stored",
                        "ui_notified">>[i]
        IN  store_log(EarlierRun("Log_MS"), "Controller_MS", action, <<>>, 900)]

\* the services are constructed: the tables are created if they do not
\* exist, no nonce has been seen, no car is registered
InitFlow ==
    /\ clock = 1000
    /\ seen_nonces = [S \in AllServices |-> <<>>]
    /\ inflight = <<>>
    /\ signedAs = <<>>
    /\ accepted = <<>>
    /\ verdict = NoVerdict
    /\ \E earlier \in BOOLEAN :
          run = [prog |-> <<>>, call |-> 0, script |-> FALSE, sent |-> 0,
                 parcel_id |-> "", car_id |-> "", delivery |-> <<>>, update |-> <<>>,
                 ack |-> <<>>, cars |-> {},
                 ids |-> IF earlier THEN EarlierIds ELSE <<>>,
                 deliveries |-> IF earlier THEN EarlierDeliveries ELSE <<>>,
                 logs |-> IF earlier THEN EarlierLogs ELSE <<>>,
                 before |-> IF earlier THEN [ids |-> 2, deliveries |-> 2, logs |-> 7]
                            ELSE [ids |-> 0, deliveries |-> 0, logs |-> 0],
                 raised |-> NoError, trace |-> <<>>]
    /\ OnlySimulation

NextFlow ==
    \/ RunScript /\ UNCHANGED <<webVars, dateVars>>
    \/ /\ \E method \in {request_parcel_id, request_car_id_and_check} : CallMethod(method)
       /\ UNCHANGED <<webVars, dateVars>>
    \/ /\ \E parcel_id \in ParcelIds, car_id \in CarIds :
             CallAssignDelivery(parcel_id, car_id)
       /\ UNCHANGED <<webVars, dateVars>>
    \/ Exchange /\ UNCHANGED <<webVars, dateVars>>
    \/ GenerateParcelId /\ UNCHANGED <<webVars, dateVars>>
    \/ SelectCar /\ UNCHANGED <<webVars, dateVars>>
    \/ CheckCar /\ UNCHANGED <<webVars, dateVars>>
    \/ StoreId /\ UNCHANGED <<webVars, dateVars>>
    \/ RetrieveLatestId /\ UNCHANGED <<webVars, dateVars>>
    \/ RequireLatest /\ UNCHANGED <<webVars, dateVars>>
    \/ StoreDelivery /\ UNCHANGED <<webVars, dateVars>>
    \/ StoreLog /\ UNCHANGED <<webVars, dateVars>>
    \/ MakeUpdate /\ UNCHANGED <<webVars, dateVars>>
    \/ Return /\ UNCHANGED <<webVars, dateVars>>

SpecFlow == InitFlow /\ [][NextFlow]_vars

(***************************************************************************)
(* C22                                                                     *)
(***************************************************************************)
\* the id of the given type that was stored last: the plaintext of the row
\* of that type with the highest row id, "" when there is none
C22_LastStored(id_type) ==
    LET rows == {i \in 1..Len(run.ids) : run.ids[i].id_type = id_type}
    IN  IF rows = {} THEN ""
        ELSE run.ids[CHOOSE i \in rows : \A j \in rows : j <= i].id_encrypted.plaintext

\* assign_delivery is being executed and is past its two comparisons
C22_PastChecks ==
    /\ run.prog # <<>>
    /\ Head(run.prog).fn = "assign_delivery"
    /\ Head(run.prog).do \in {"store_delivery", "store_log", "return"}

\* the last thing that happened is that assign_delivery raised
C22_AssignRaised ==
    /\ run.trace # <<>>
    /\ run.trace[Len(run.trace)].fn = "assign_delivery"
    /\ run.trace[Len(run.trace)].ev = "raise"

\* C22: in run_simulation the delivery record is inserted into Database_1
\* only after a parcel id and then a car id have been inserted into
\* Database_2; assign_delivery inserts a delivery only when the parcel id
\* and the car id stored last (highest row id of each type) equal its
\* arguments, and otherwise raises RuntimeError and inserts neither a
\* delivery record nor a log record.
C22_DeliveryAfterIds ==
    /\ run.script =>
           \A i \in 1..Len(run.trace) :
               run.trace[i].ev = "deliveries" =>
                   \E j \in 1..(i - 1), k \in 1..(i - 1) :
                       /\ j < k
                       /\ run.trace[j].ev = "ids" /\ run.trace[j].what = "parcel"
                       /\ run.trace[k].ev = "ids" /\ run.trace[k].what = "car"
    /\ C22_PastChecks =>
           /\ C22_LastStored("parcel") = run.parcel_id
           /\ C22_LastStored("car") = run.car_id
    /\ \A i \in 1..Len(run.trace) :
           (run.trace[i].fn = "assign_delivery" /\ run.trace[i].ev \in {"deliveries", "logs"})
               => \A j \in (i + 1)..Len(run.trace) :
                      ~(run.trace[j].ev = "raise" /\ run.trace[j].call = run.trace[i].call
                            /\ run.trace[j].fn = "assign_delivery")
    /\ C22_AssignRaised =>
           /\ run.raised.type = "RuntimeError"
           /\ run.prog = <<>>
    /\ (/\ run.prog # <<>>
        /\ Head(run.prog).fn = "assign_delivery"
        /\ Head(run.prog).do = "require_latest"
        /\ Head(run.prog).arg = "car")
           => C22_LastStored("parcel") = run.parcel_id

\* after request_parcel_id and request_car_id_and_check had stored their
\* ids, assign_delivery was called with another parcel id and raised:
\* no delivery and no third log record were inserted
C22_MismatchRaised ==
    /\ ~run.script
    /\ run.call = 3
    /\ run.raised = [type |-> "RuntimeError",
                     message |-> "Parcel ID mismatch or none in storage"]
    /\ Len(run.ids) = run.before.ids + 2
    /\ C22_LastStored("parcel") # run.parcel_id
    /\ Len(run.deliveries) = run.before.deliveries
    /\ Len(run.logs) = run.before.logs + 2

\* the same with the stored parcel id and another car id
C22_CarMismatchRaised ==
    /\ ~run.script
    /\ run.raised = [type |-> "RuntimeError",
                     message |-> "Car ID mismatch or none in storage"]
    /\ C22_LastStored("parcel") = run.parcel_id
    /\ C22_LastStored("car") \notin {"", run.car_id}
    /\ Len(run.deliveries) = run.before.deliveries

\* assign_delivery, called with the ids stored last, inserted the delivery
C22_Assigned ==
    /\ ~run.script
    /\ run.prog = <<>>
    /\ run.raised = NoError
    /\ Len(run.deliveries) = run.before.deliveries + 1
    /\ run.trace[Len(run.trace)].fn = "assign_delivery"

\* run_simulation inserted its two delivery records
C22_ScriptAssigned ==
    /\ run.script
    /\ run.prog = <<>>
    /\ run.raised = NoError
    /\ Len(run.deliveries) = run.before.deliveries + 2

\* the ids stored last were written by an earlier run, under other keys
C22_EarlierIdsRefused ==
    /\ run.raised = [type |-> "RuntimeError",
                     message |-> "Integrity check failed for stored id"]
    /\ C22_LastStored("parcel") = run.parcel_id
    /\ Len(run.deliveries) = run.before.deliveries

(***************************************************************************)
(* C23                                                                     *)
(***************************************************************************)
C23_Seven ==
    <<"parcel_id_generated", "car_id_recorded", "delivery_assigned", "car_notified",
      "ui_notified", "delivery_update_stored", "ui_notified">>

\* the actions of the log records this program has appended, in order
C23_Appended ==
    [i \in 1..(Len(run.logs) - run.before.logs) |-> run.logs[run.before.logs + i].action]

\* the methods whose verify_incoming calls belong to the step that ends
\* with the log record of this action, and the number of these calls
C23_StepOf(action) ==
    CASE action = "parcel_id_generated" -> [fns |-> {"request_parcel_id"}, calls |-> 5]
      [] action = "car_id_recorded" -> [fns |-> {"request_car_id_and_check"}, calls |-> 4]
      [] action = "delivery_assigned" -> [fns |-> {"assign_delivery"}, calls |-> 0]
      [] action = "car_notified" -> [fns |-> {"notify_car"}, calls |-> 2]
      [] action = "ui_notified" ->
             [fns |-> {"notify_ui_and_sender", "notify_sender"}, calls |-> 4]
      [] action = "delivery_update_stored" -> [fns |-> {"handle_car_update"}, calls |-> 3]

\* the position of the last log record before position i of the trace, or 0
C23_PreviousLog(i) ==
    LET before == {j \in 1..(i - 1) : run.trace[j].ev = "logs"}
    IN  IF before = {} THEN 0 ELSE CHOOSE j \in before : \A k \in before : k <= j

\* C23: one complete run_simulation appends exactly seven records to the
\* logs table, in this order: parcel_id_generated, car_id_recorded,
\* delivery_assigned, car_notified, ui_notified, delivery_update_stored,
\* ui_notified; each record is appended only after every verify_incoming
\* call of its step has returned ok.
C23_SevenLogs ==
    /\ (run.script /\ run.prog = <<>> /\ run.raised = NoError) =>
           /\ C23_Appended = C23_Seven
           /\ [i \in 1..7 |-> SelectSeq(run.trace, LAMBDA e : e.ev = "logs")[i].what]
                  = C23_Seven
           /\ Len(SelectSeq(run.trace, LAMBDA e : e.ev = "logs")) = 7
    /\ run.script =>
           /\ Len(C23_Appended) <= 7
           /\ C23_Appended = SubSeq(C23_Seven, 1, Len(C23_Appended))
    /\ \A i \in 1..Len(run.trace) :
           run.trace[i].ev = "logs" =>
               /\ \A j \in 1..(i - 1) : run.trace[j].ev = "verify" => run.trace[j].ok
               /\ Cardinality({j \in (C23_PreviousLog(i) + 1)..(i - 1) :
                                   /\ run.trace[j].ev = "verify"
                                   /\ run.trace[j].ok
                                   /\ run.trace[j].fn \in C23_StepOf(run.trace[i].what).fns})
                      = C23_StepOf(run.trace[i].what).calls

\* run_simulation has returned, with seven more log records than before
C23_RunComplete ==
    /\ run.script
    /\ run.prog = <<>>
    /\ run.raised = NoError
    /\ run.trace[Len(run.trace)].fn = "run_simulation"
    /\ run.trace[Len(run.trace)].ev = "return"
    /\ Len(run.logs) = run.before.logs + 7

\* run_simulation ended in notify_sender, where the second verification
\* failed: the record ui_notified of that step was not appended
C23_StoppedBeforeLog ==
    /\ run.script
    /\ run.raised = [type |-> "RuntimeError", message |-> "UI failed to verify sender ack"]
    /\ C23_Appended = SubSeq(C23_Seven, 1, 4)

(***************************************************************************)
(* C24                                                                     *)
(***************************************************************************)
\* the entries of the trace that the given call of request_parcel_id made
C24_Of(call) ==
    SelectSeq(run.trace, LAMBDA e : e.call = call /\ e.fn = "request_parcel_id")

\* the number of verifications of the given call that returned ok
C24_Verified(call) ==
    Len(SelectSeq(C24_Of(call), LAMBDA e : e.ev = "verify" /\ e.ok))

\* the given call has inserted its parcel id, has logged, has returned,
\* has raised
C24_Did(call, ev) == SelectSeq(C24_Of(call), LAMBDA e : e.ev = ev) # <<>>

\* the number of entries of the trace of this kind
C24_Count(ev) == Len(SelectSeq(run.trace, LAMBDA e : e.ev = ev))

\* C24: a 'parcel_id_generated' log record is written and a parcel id is
\* returned only if all five verifications in request_parcel_id succeeded;
\* when a verification that comes after store_id fails, RuntimeError is
\* raised, no log record is written, and the parcel id already inserted into
\* Database_2 and the nonces already recorded are not undone.
C24_LogOnlyAfterFive ==
    /\ \A call \in 1..run.call :
           /\ C24_Did(call, "logs") => C24_Verified(call) = 5
           /\ C24_Did(call, "return") => C24_Verified(call) = 5 /\ C24_Did(call, "logs")
           /\ (C24_Did(call, "ids") /\ C24_Did(call, "raise")) =>
                  /\ run.raised.type = "RuntimeError"
                  /\ C24_Verified(call) \in {3, 4}
                  /\ ~C24_Did(call, "logs")
                  /\ ~C24_Did(call, "return")
    /\ Len(run.ids) = run.before.ids + C24_Count("ids")
    /\ Len(run.logs) = run.before.logs + C24_Count("logs")
    /\ \A S \in AllServices :
           Len(seen_nonces[S]) =
               Len(SelectSeq(run.trace, LAMBDA e : e.ev = "verify" /\ e.ok /\ e.what = S))
    /\ (run.raised # NoError /\ run.trace[Len(run.trace)].fn = "request_parcel_id"
            /\ C24_Did(run.call, "ids")) =>
           /\ run.ids[Len(run.ids)].id_type = "parcel"
           /\ run.ids[Len(run.ids)].id_encrypted.plaintext = run.parcel_id

\* request_parcel_id raised at its last verification: the parcel id is in
\* Database_2, four nonces are recorded, no log record was written
C24_FailedAfterStore ==
    /\ ~run.script
    /\ run.call = 1
    /\ run.raised = [type |-> "RuntimeError",
                     message |-> "Controller failed to verify IDGen ACK"]
    /\ Len(run.ids) = run.before.ids + 1
    /\ run.ids[Len(run.ids)].id_encrypted.plaintext = run.parcel_id
    /\ Len(run.logs) = run.before.logs
    /\ Len(seen_nonces["IDGen_MS"]) = 2
    /\ Len(seen_nonces["Controller_MS"]) = 1
    /\ Len(seen_nonces["Storage_MS"]) = 1

\* request_parcel_id raised at the verification of the storage's ack
C24_AckRefused ==
    /\ run.raised = [type |-> "RuntimeError", message |-> "IDGen rejected storage ack"]
    /\ Len(run.ids) = run.before.ids + 1
    /\ Len(run.logs) = run.before.logs

\* request_parcel_id returned after five verifications and one log record
C24_Returned ==
    /\ ~run.script
    /\ run.call = 1
    /\ run.prog = <<>>
    /\ run.raised = NoError
    /\ Len(run.logs) = run.before.logs + 1
    /\ run.logs[Len(run.logs)].action = "parcel_id_generated"

(***************************************************************************)
(* C26                                                                     *)
(***************************************************************************)
\* C26: in variant 2, after any sequence of API POST and PUT requests every
\* stored book has a non-empty Book_Title, Book_Author and Book_Genre.
C26_RequiredFieldsStored ==
    \A id \in Ids(books) :
        \A k \in {"Book_Title", "Book_Author", "Book_Genre"} : books[id][k] # <<>>

\* a POST or PUT whose body holds an empty required field was answered 400
\* and the tables are as they were; a body with a field made of blanks is not
\* among them
C26_EmptyRefused ==
    [][(/\ resp'.req.op \in {"api_books", "api_book_item"}
        /\ resp'.req.method \in {"POST", "PUT"}
        /\ resp'.req.is_json
        /\ \E k \in {"Book_Title", "Book_Author", "Book_Genre"} \cap DOMAIN resp'.req.payload :
               resp'.req.payload[k] = <<>>
        /\ resp'.status # 404)
           => /\ resp'.status = 400
              /\ books' = books]_vars

\* a POST whose Book_Title is one blank was answered 201 and the book is
\* stored with an empty Book_Title
C26_BlankTitleStored ==
    /\ resp.req.op = "api_books"
    /\ resp.req.method = "POST"
    /\ resp.status = 201
    /\ resp.req.payload["Book_Title"] = <<" ">>
    /\ \E id \in Ids(books) : books[id].Book_Title = <<>>

(***************************************************************************)
(* Refused updates of a book, in variants 2 and 3                          *)
(***************************************************************************)
PutRequests == 3

\* bodies of PUT: valid keys alone, and valid keys next to an empty
\* required field or to an invalid date
PutBodies ==
    {[Book_Title |-> <<"c">>],
     [Book_Title |-> <<>>, Book_Author |-> <<"y">>],
     [Book_Title |-> <<"c">>, Book_Publication_Date |-> YMD(2020, 2, 30)],
     [Book_Description |-> <<"e">>, Book_Publication_Date |-> <<"x">>],
     [Book_Genre |-> <<"h">>, Book_Publication_Date |-> YMD(2022, 12, 31)]}

InitPut ==
    /\ variant \in {"v2", "v3"}
    /\ CASE variant = "v2" -> V2_create_tables
         [] variant = "v3" -> V3_init_db
    /\ resp = NoResponse
    /\ hist = NoHistory
    /\ nreq = 0
    /\ libc = "glibc"
    /\ ParsersIdle
    /\ OnlyApi

NextPut ==
    /\ nreq < PutRequests
    /\ \/ Serve(ApiBooks(WithToken(POST(TRUE, V2_NewBook(TxtT, TxtA, TxtG)))))
       \/ \E id \in SomeIds(books, {}) :
              \/ Serve(ApiBookItem(GET(<<>>), id))
              \/ \E payload \in PutBodies :
                     Serve(ApiBookItem(WithToken(PUT(TRUE, payload)), id))

SpecPut == InitPut /\ [][NextPut]_vars

(***************************************************************************)
(* C25                                                                     *)
(***************************************************************************)
\* C25: in variants 2 and 3, a PUT /books/<id> that is answered 400 (an
\* empty required field in variant 2, an invalid Book_Publication_Date in
\* either) leaves the stored book exactly as it was before the request, also
\* when the body carried other valid fields that the handler had already
\* assigned to the book object before it found the error; a later GET
\* returns the old values (a GET returns what is stored).
C25_RefusedPutKeepsBook ==
    [][/\ (/\ resp'.req.op = "api_book_item"
           /\ resp'.req.method = "PUT"
           /\ resp'.status = 400)
              => books' = books
       /\ (/\ resp'.req.op = "api_book_item"
           /\ resp'.req.method = "GET"
           /\ resp'.status = 200)
              => /\ books' = books
                 /\ \A k \in {"Book_Title", "Book_Author", "Book_Genre", "Book_Publication",
                              "Book_Description"} :
                        resp'.body[k] = books[resp'.req.id][k]]_vars

\* variant 3 refused a PUT for its date; the title of the body, which the
\* handler had assigned before, is not the stored one
C25_V3AssignedTitleDropped ==
    /\ variant = "v3"
    /\ resp.req.op = "api_book_item"
    /\ resp.req.method = "PUT"
    /\ resp.status = 400
    /\ resp.req.payload = [Book_Title |-> <<"c">>,
                           Book_Publication_Date |-> YMD(2020, 2, 30)]
    /\ books[resp.req.id].Book_Title = TxtT

\* variant 2 refused a PUT for its empty title; the author of the body is
\* not the stored one
C25_V2AssignedAuthorDropped ==
    /\ variant = "v2"
    /\ resp.req.op = "api_book_item"
    /\ resp.req.method = "PUT"
    /\ resp.status = 400
    /\ resp.req.payload = [Book_Title |-> <<>>, Book_Author |-> <<"y">>]
    /\ books[resp.req.id].Book_Author # <<"y">>

\* variant 2 refused a PUT for its date; the description of the body is not
\* the stored one
C25_V2AssignedTextDropped ==
    /\ variant = "v2"
    /\ resp.req.op = "api_book_item"
    /\ resp.req.method = "PUT"
    /\ resp.status = 400
    /\ resp.req.payload = [Book_Description |-> <<"e">>, Book_Publication_Date |-> <<"x">>]
    /\ books[resp.req.id].Book_Description # <<"e">>

\* an accepted PUT changed the stored book
C25_AcceptedPutStored ==
    /\ resp.req.op = "api_book_item"
    /\ resp.req.method = "PUT"
    /\ resp.status = 200
    /\ books[resp.req.id].Book_Genre = <<"h">>

(***************************************************************************)
(* Original variant: POST /api/v/genres and /api/v/authors served by two   *)
(* threads of the development server (app.run), each with its own session  *)
(***************************************************************************)
RaceRequests == 3

Workers == {1, 2}

RaceNames == {<<"x">>, <<"x", " ">>, <<>>}

\* the rows of the table that carry the name
Orig_named_rows(tbl, name) == {id \in Ids(tbl) : tbl[id].name = name}

\* api_genres / api_authors (POST) up to db.session.add: the name is read
\* and looked up; a request that passes holds its new row in its session
Orig_names_check(w, kind, r) ==
    LET req == Join([op |-> ViewName(kind, "api_genres", "api_authors")], r)
        name == Strip(Get(r.payload, "name", <<>>))
        row == Orig_Named(kind, name, Get(r.payload, Orig_TextCol(kind), <<>>))
    IN  /\ w \notin DOMAIN pending
        /\ IF name = <<>>
           THEN /\ resp' = api_error_single(req, "Name required", 400)
                /\ UNCHANGED pending
           ELSE IF Orig_named_rows(Table(kind), name) # {}
           THEN /\ resp' = api_error_single(req, "already exists", 400)
                /\ UNCHANGED pending
           ELSE /\ pending' = Insert(pending, w, [kind |-> kind, req |-> req, row |-> row])
                /\ UNCHANGED resp
        /\ nreq' = nreq + 1
        /\ UNCHANGED <<dbVars, variant, hist, libc, dateIn, dateOut, session, simVars>>

\* db.session.commit() and the answer: the INSERT is refused by the unique
\* index of name when a row of that name was committed meanwhile, and the
\* IntegrityError is caught by nothing
Orig_names_commit(w) ==
    /\ w \in DOMAIN pending
    /\ LET p == pending[w]
           tbl == Table(p.kind)
           id == NextId(tbl)
       IN  IF UniqueOk(tbl, id, "name", p.row.name)
           THEN /\ SetTable(p.kind, Insert(tbl, id, p.row))
                /\ resp' = Reply(p.req, 201, Orig_Named_to_dict(id, p.row))
           ELSE /\ resp' = InternalServerError(p.req)
                /\ UNCHANGED dbVars
    /\ pending' = Delete(pending, w)
    /\ UNCHANGED <<variant, hist, nreq, libc, dateIn, dateOut, session, simVars>>

InitRace ==
    /\ variant = "orig"
    /\ Orig_initdb \/ Orig_create_all
    /\ resp = NoResponse
    /\ hist = NoHistory
    /\ nreq = 0
    /\ libc = "glibc"
    /\ ParsersIdle
    /\ OnlyApi

NextRace ==
    \/ /\ nreq < RaceRequests
       /\ \E w \in Workers, kind \in Kinds, name \in RaceNames :
              Orig_names_check(w, kind, POST(TRUE, Orig_Named(kind, name, <<"d">>)))
    \/ \E w \in Workers : Orig_names_commit(w)

SpecRace == InitRace /\ [][NextRace]_vars

(***************************************************************************)
(* C27                                                                     *)
(***************************************************************************)
\* C27: in the original variant, when two POST /api/v/genres (or
\* /api/v/authors) requests with the same new name interleave between the
\* existence check and the commit, at most one row with that name is
\* created, and the request that commits second is answered 400 with the
\* 'already exists' message.
C27_SecondAnswered400 ==
    [][\A w \in DOMAIN pending \ DOMAIN pending' :
          LET p == pending[w]
          IN  Orig_named_rows(Table(p.kind), p.row.name) # {}
                 => /\ Cardinality(Orig_named_rows(IF p.kind = "genres" THEN genres'
                                                   ELSE authors', p.row.name)) <= 1
                    /\ resp' = api_error_single(p.req, "already exists", 400)]_vars

\* no name is ever stored in two rows of a table
C27_AtMostOneRow ==
    \A kind \in Kinds : \A id \in Ids(Table(kind)) :
        Orig_named_rows(Table(kind), Table(kind)[id].name) = {id}

\* the request that commits second is answered 500, and nothing else
C27_SecondAnswered500 ==
    [][\A w \in DOMAIN pending \ DOMAIN pending' :
          LET p == pending[w]
          IN  Orig_named_rows(Table(p.kind), p.row.name) # {}
                 => /\ UNCHANGED dbVars
                    /\ resp' = InternalServerError(p.req)]_vars

\* both requests passed the check, one has committed its row and been
\* answered 201
C27_FirstCommitted ==
    /\ resp.status = 201
    /\ resp.req.op = "api_genres"
    /\ \E w \in DOMAIN pending :
          /\ pending[w].kind = "genres"
          /\ Orig_named_rows(genres, pending[w].row.name) # {}

\* the second of them has been answered 500
C27_SecondRaised ==
    /\ resp.status = 500
    /\ resp.req.op = "api_genres"
    /\ resp.req.method = "POST"
    /\ Orig_named_rows(genres, Strip(resp.req.payload.name)) # {}

\* a request that arrives after the commit is answered 400
C27_LaterRefused ==
    /\ resp.status = 400
    /\ resp.body = [message |-> "already exists"]
    /\ resp.req.op = "api_authors"

====
